---- MODULE Spec2Model ----
(***************************************************************************)
(* The Palo Alto single-family zoning rule engines: PlanningEngine and     *)
(* ValidationEngine, each a five-phase workflow over a static zone table.  *)
(*                                                                         *)
(* Numbers.  Lot sizes, areas and distances are integers.  The code        *)
(* multiplies by 0.45, 0.30, 0.35, 0.05, 0.40 and 0.5; every quantity that *)
(* results from such a product is kept here in HUNDREDTHS (lotSize * 45    *)
(* stands for lotSize * 0.45), and a value compared with it is multiplied  *)
(* by 100 first.  An absent numeric property (JavaScript undefined, which  *)
(* compares as NaN) is Undef: every comparison with it is false.           *)
(* Message texts of tasks, checks and violations are not modelled.         *)
(***************************************************************************)
EXTENDS Integers, Sequences, FiniteSets, TLC

VARIABLES
    engine,   \* the engine objects: their fields (zone table, phase names, ...)
    wf,       \* the workflow runs in progress: one workflow function call each
    args,     \* the records handed to direct calls of helper methods
    ret,      \* the results of the direct helper calls made so far
    app       \* the web application object and its workflow calls in flight

vars == <<engine, wf, args, ret, app>>

(***************************************************************************)
(* JavaScript values                                                       *)
(***************************************************************************)
Undef == -1

undefined == "undefined"

Null == <<>>

Some(x) == <<x>>

Min(a, b) == IF a <= b THEN a ELSE b

Max(a, b) == IF a >= b THEN a ELSE b

\* a >= b, a <= b, a < b, a > b on numbers that may be undefined
Ge(a, b) == a # Undef /\ b # Undef /\ a >= b

Le(a, b) == a # Undef /\ b # Undef /\ a <= b

Lt(a, b) == a # Undef /\ b # Undef /\ a < b

Gt(a, b) == a # Undef /\ b # Undef /\ a > b

\* truthiness of a number: undefined and 0 are falsy
Truthy(x) == x # Undef /\ x # 0

\* x || 0
OrZero(x) == IF Truthy(x) THEN x ELSE 0

\* n in hundredths
Hundredths(n) == IF n = Undef THEN Undef ELSE n * 100

\* Object.values(o) of an object with keys phase1..phase5, in insertion order
PhaseKeys == <<"phase1", "phase2", "phase3", "phase4", "phase5">>

RECURSIVE ObjectValuesFrom(_, _)
ObjectValuesFrom(o, i) ==
    IF i > Len(PhaseKeys) THEN <<>>
    ELSE (IF PhaseKeys[i] \in DOMAIN o THEN <<o[PhaseKeys[i]]>> ELSE <<>>)
         \o ObjectValuesFrom(o, i + 1)

ObjectValues(o) == ObjectValuesFrom(o, 1)

\* array.filter(pred) for arrays of violations, by type
RECURSIVE FilterType(_, _)
FilterType(vs, t) ==
    IF vs = <<>> THEN <<>>
    ELSE (IF Head(vs).type = t THEN <<Head(vs)>> ELSE <<>>) \o FilterType(Tail(vs), t)

(***************************************************************************)
(* The zone tables                                                         *)
(***************************************************************************)
ZoneCodes == {"R-1", "R-1(7000)", "R-1(8000)", "R-1(10000)", "R-1(20000)"}

PlanningZoneRequirements ==
    [z \in ZoneCodes |->
        CASE z = "R-1" ->
                [minLotSize |-> 6000, maxLotSize |-> 9999,
                 subStandardTypical |-> 4980, subStandardFlag |-> 5976,
                 secondUnitMinTypical |-> 8100, secondUnitMinFlag |-> 9720]
          [] z = "R-1(7000)" ->
                [minLotSize |-> 7000, maxLotSize |-> 13999,
                 subStandardTypical |-> 5810, subStandardFlag |-> 6972,
                 secondUnitMinTypical |-> 9450, secondUnitMinFlag |-> 11340]
          [] z = "R-1(8000)" ->
                [minLotSize |-> 8000, maxLotSize |-> 15999,
                 subStandardTypical |-> 6640, subStandardFlag |-> 7968,
                 secondUnitMinTypical |-> 10800, secondUnitMinFlag |-> 12960]
          [] z = "R-1(10000)" ->
                [minLotSize |-> 10000, maxLotSize |-> 19999,
                 subStandardTypical |-> 8300, subStandardFlag |-> 9960,
                 secondUnitMinTypical |-> 13500, secondUnitMinFlag |-> 16200]
          [] z = "R-1(20000)" ->
                [minLotSize |-> 20000, maxLotSize |-> 39999,
                 subStandardTypical |-> 16600, subStandardFlag |-> 19920,
                 secondUnitMinTypical |-> 27000, secondUnitMinFlag |-> 32400]]

\* the table with the two second unit thresholds of one zone exchanged
ExchangedZoneRequirements ==
    [PlanningZoneRequirements EXCEPT
        !["R-1(7000)"].secondUnitMinTypical = 11340,
        !["R-1(7000)"].secondUnitMinFlag = 9450]

\* the table with one substandard threshold above the zone's minimum lot size
RaisedZoneRequirements ==
    [PlanningZoneRequirements EXCEPT !["R-1"].subStandardTypical = 6001]

ValidationZoneRequirements ==
    [z \in ZoneCodes |->
        CASE z = "R-1" ->
                [minLotSize |-> 6000, maxLotSize |-> 9999,
                 subStandardTypical |-> 4980, subStandardFlag |-> 5976,
                 secondUnitMinTypical |-> 8100, secondUnitMinFlag |-> 9720]
          [] z = "R-1(7000)" ->
                [minLotSize |-> 7000, maxLotSize |-> 13999,
                 subStandardTypical |-> 5810, subStandardFlag |-> 6972,
                 secondUnitMinTypical |-> 9450, secondUnitMinFlag |-> 11340]
          [] z = "R-1(8000)" ->
                [minLotSize |-> 8000, maxLotSize |-> 15999,
                 subStandardTypical |-> 6640, subStandardFlag |-> 7968,
                 secondUnitMinTypical |-> 10800, secondUnitMinFlag |-> 12960]
          [] z = "R-1(10000)" ->
                [minLotSize |-> 10000, maxLotSize |-> 19999,
                 subStandardTypical |-> 8300, subStandardFlag |-> 9960,
                 secondUnitMinTypical |-> 13500, secondUnitMinFlag |-> 16200]
          [] z = "R-1(20000)" ->
                [minLotSize |-> 20000, maxLotSize |-> 39999,
                 subStandardTypical |-> 16600, subStandardFlag |-> 19920,
                 secondUnitMinTypical |-> 27000, secondUnitMinFlag |-> 32400]]

\* new PlanningEngine()
PlanningEngine ==
    [class |-> "PlanningEngine",
     phases |-> <<"Project Initiation & Site Analysis",
                  "Building Design & Compliance",
                  "Parking & Access Design",
                  "Special Features & Accessories",
                  "Final Compliance & Documentation">>,
     zoneRequirements |-> PlanningZoneRequirements]

\* new ValidationEngine()
ValidationEngine ==
    [class |-> "ValidationEngine",
     phases |-> <<"Site Analysis & Pre-Validation",
                  "Building Envelope Validation",
                  "Parking & Access Validation",
                  "Special Features & Accessories Validation",
                  "Final Compliance Validation & Report Generation">>,
     zoneRequirements |-> ValidationZoneRequirements,
     criticalViolationTypes |->
        [ABSOLUTE_STOPPER |-> "absolute_stopper",
         MAJOR_STOPPER |-> "major_stopper",
         DESIGN_STOPPER |-> "design_stopper",
         PROCESS_STOPPER |-> "process_stopper"]]

\* phase1Results.nextPhaseInputs.isSubStandard as phase 2 uses it, in
\* isSubStandard ? 17 : 30: the results of a phase 1 that stopped have an empty
\* nextPhaseInputs, the read is undefined and counts as false
HandedOverSubStandard(phase1Results) ==
    IF "isSubStandard" \in DOMAIN phase1Results.nextPhaseInputs
    THEN phase1Results.nextPhaseInputs.isSubStandard
    ELSE FALSE

\* the table is an object literal, so besides its five own keys a lookup also
\* finds the members every object inherits from Object.prototype
InheritedKeys ==
    {"constructor", "toString", "toLocaleString", "valueOf", "hasOwnProperty",
     "isPrototypeOf", "propertyIsEnumerable", "__proto__"}

\* an inherited member is a value without any of the six requirement fields:
\* each of them reads as undefined
NoRequirement ==
    [minLotSize |-> Undef, maxLotSize |-> Undef,
     subStandardTypical |-> Undef, subStandardFlag |-> Undef,
     secondUnitMinTypical |-> Undef, secondUnitMinFlag |-> Undef]

\* this.zoneRequirements[zone] is undefined for a zone that is neither a key of
\* the table nor inherited; reading a property of undefined throws a TypeError
KnownZone(this, zone) == zone \in DOMAIN this.zoneRequirements \cup InheritedKeys

\* this.zoneRequirements[zone] where it is not undefined
Lookup(this, zone) ==
    IF zone \in DOMAIN this.zoneRequirements THEN this.zoneRequirements[zone]
    ELSE NoRequirement

(***************************************************************************)
(* PlanningEngine: helper methods                                          *)
(***************************************************************************)
\* a lot of exactly the minimum size refused
verifyLotSizeAboveMinimum(this, siteData) ==
    LET zoneReq == Lookup(this, siteData.zone)
        isCompliant == Gt(siteData.lotSize, zoneReq.minLotSize)
    IN  [name |-> "Lot Size Verification",
         status |-> IF isCompliant THEN "pass" ELSE "fail",
         required |-> zoneReq.minLotSize,
         actual |-> siteData.lotSize]

verifyLotSize(this, siteData) ==
    LET zoneReq == Lookup(this, siteData.zone)
        isCompliant == Ge(siteData.lotSize, zoneReq.minLotSize)
    IN  [name |-> "Lot Size Verification",
         status |-> IF isCompliant THEN "pass" ELSE "fail",
         required |-> zoneReq.minLotSize,
         actual |-> siteData.lotSize]

determineSubStandardStatus(this, siteData) ==
    LET zoneReq == Lookup(this, siteData.zone)
        threshold == IF siteData.lotType = "flag"
                     THEN zoneReq.subStandardFlag ELSE zoneReq.subStandardTypical
        isSubStandard == Lt(siteData.lotSize, threshold)
    IN  [name |-> "Substandard Lot Determination",
         status |-> "completed",
         isSubStandard |-> isSubStandard,
         threshold |-> threshold]

verifyZoneDistrict(siteData) ==
    [name |-> "Zone District Verification", status |-> "pass", zone |-> siteData.zone]

assessHistoricStatus(siteData) ==
    [name |-> "Historic Property Assessment",
     status |-> "completed",
     historicCategory |-> siteData.historicCategory]

assessEnvironmentalConstraints(siteData) ==
    [name |-> "Environmental Constraints Assessment",
     status |-> "completed",
     constraints |-> [creekAreas |-> OrZero(siteData.creekAreas),
                      easements |-> OrZero(siteData.easements)],
     hasConstraints |-> Truthy(siteData.creekAreas) \/ Truthy(siteData.easements)]

calculateBuildableArea(siteData) ==
    siteData.lotSize - OrZero(siteData.creekAreas) - OrZero(siteData.easements)

calculateHeightParameters(isSubStandard) ==
    [maxHeight |-> IF isSubStandard THEN 17 ELSE 30,
     storyEquivalencies |-> [secondFloor |-> 17, thirdFloor |-> 26]]

calculateDaylightPlaneParameters(siteData) ==
    [angle |-> 45, measurementHeight |-> 10,
     applicableLines |-> <<"front", "rear", "side_interior", "side_street">>]

\* the tiers without the 6000 square foot cap
calculateFARParametersUncapped(siteData) ==
    LET first5000 == Min(siteData.lotSize, 5000) * 45
        excess == Max(siteData.lotSize - 5000, 0) * 30
        calculated == first5000 + excess
    IN  [first5000Allowance |-> first5000,
         excessAllowance |-> excess,
         calculatedFAR |-> calculated,
         maxFloorArea |-> calculated]

\* all four allowances in hundredths of a square foot
calculateFARParameters(siteData) ==
    LET first5000 == Min(siteData.lotSize, 5000) * 45
        excess == Max(siteData.lotSize - 5000, 0) * 30
        calculated == first5000 + excess
        maxFloorArea == Min(calculated, 6000 * 100)
    IN  [first5000Allowance |-> first5000,
         excessAllowance |-> excess,
         calculatedFAR |-> calculated,
         maxFloorArea |-> maxFloorArea]

calculateSetbackParameters(siteData) ==
    [front |-> 20,
     interiorSide |-> 5,
     streetSide |-> IF siteData.isCornerLot THEN 16 ELSE Undef,
     rear |-> 20,
     specialConditions |-> IF siteData.isCornerLot
                           THEN <<"Corner lot - street side setback applies">> ELSE <<>>]

calculateArchitecturalFeatures ==
    [porches |-> [maxSize |-> 200],
     entryProjections |-> [maxProjection |-> 6],
     bayWindows |-> [maxProjection |-> 3, maxWidth |-> 12]]

calculateParkingRequirements(siteData) ==
    [mainDwelling |-> [total |-> 2, covered |-> 1],
     secondUnit |-> IF siteData.hasSecondUnit
                    THEN Some([total |-> 2, covered |-> 1]) ELSE Null,
     totalRequired |-> IF siteData.hasSecondUnit THEN 2 + 2 ELSE 2,
     coveredRequired |-> IF siteData.hasSecondUnit THEN 1 + 1 ELSE 1]

calculateDrivewayParameters ==
    [minSurfaceWidth |-> 8,
     minClearanceWidth |-> 10,
     approvedMaterials |-> <<"concrete", "asphalt", "approved_pavers">>,
     minBackingDistance |-> 18]

\* the non-corner object has no streetSideSetback property
calculateGaragePlacement(siteData) ==
    IF siteData.isCornerLot
    THEN [frontSetback |-> 75, streetSideSetback |-> 20,
          specialConditions |-> <<"Corner lot requirements">>]
    ELSE [frontSetback |-> 20, streetSideSetback |-> Undef,
          specialConditions |-> <<>>]

calculateAccessRequirements ==
    [minBackingDistance |-> 18]

\* a lot of exactly the threshold size found not feasible
assessSecondUnitFeasibilityAboveThreshold(this, siteData) ==
    LET zoneReq == Lookup(this, siteData.zone)
        minRequired == IF siteData.lotType = "flag"
                       THEN zoneReq.secondUnitMinFlag ELSE zoneReq.secondUnitMinTypical
        isFeasible == Gt(siteData.lotSize, minRequired)
    IN  [name |-> "Second Dwelling Unit Feasibility",
         status |-> IF isFeasible THEN "feasible" ELSE "not_feasible",
         minRequired |-> minRequired,
         parameters |-> IF isFeasible
                        THEN Some([maxSize |-> 640, maxSizePercent |-> 50,
                                   parkingRequired |-> 2, coveredRequired |-> 1])
                        ELSE Null]

assessSecondUnitFeasibility(this, siteData) ==
    LET zoneReq == Lookup(this, siteData.zone)
        minRequired == IF siteData.lotType = "flag"
                       THEN zoneReq.secondUnitMinFlag ELSE zoneReq.secondUnitMinTypical
        isFeasible == Ge(siteData.lotSize, minRequired)
    IN  [name |-> "Second Dwelling Unit Feasibility",
         status |-> IF isFeasible THEN "feasible" ELSE "not_feasible",
         minRequired |-> minRequired,
         parameters |-> IF isFeasible
                        THEN Some([maxSize |-> 640, maxSizePercent |-> 50,
                                   parkingRequired |-> 2, coveredRequired |-> 1])
                        ELSE Null]

calculateAccessoryStructureParameters ==
    [maxHeight |-> 15, minSetbacks |-> 5, minSeparation |-> 5, includedInCoverage |-> TRUE]

calculatePoolParameters ==
    [minSetbacks |-> 5, safetyBarriers |-> "required", equipmentScreening |-> "required"]

\* the three areas in hundredths of a square foot
calculateCoverageParameters(siteData) ==
    LET baseCoverage == siteData.lotSize * 35
        additionalAllowance == siteData.lotSize * 5
    IN  [maxCoveragePercent |-> 35,
         additionalAllowancePercent |-> 5,
         maxCoverageArea |-> baseCoverage,
         additionalAllowanceArea |-> additionalAllowance,
         totalMaxCoverage |-> baseCoverage + additionalAllowance]

assessOverallCompliance ==
    [phase1 |-> "compliant", phase2 |-> "compliant", phase3 |-> "compliant",
     phase4 |-> "compliant", overallStatus |-> "ready_for_documentation"]

performFinalComplianceReview ==
    [name |-> "Comprehensive Compliance Review",
     status |-> "completed",
     summary |-> [totalChecks |-> 127, passed |-> 127, failed |-> 0, warnings |-> 0]]

generateDocumentationRequirements ==
    [requiredDrawings |-> <<"Site plan with dimensions", "Floor plans",
                            "Building elevations", "Landscape plan", "Utility plan">>,
     professionalStamps |-> <<"Architect", "Structural Engineer", "Civil Engineer">>]

identifyProfessionalRequirements ==
    [required |-> <<"Architect", "Structural Engineer">>,
     recommended |-> <<"Civil Engineer", "Landscape Architect">>,
     conditional |-> <<>>]

developSubmissionStrategy ==
    [submitTo |-> <<"Planning Department", "Building Department">>]

\* allResults.phaseK?.x || default
generateFinalPlanningReport(siteData, allResults) ==
    [projectSummary |->
        [address |-> siteData.address,
         zone |-> siteData.zone,
         lotSize |-> siteData.lotSize,
         isSubStandard |-> IF "phase1" \in DOMAIN allResults
                           THEN allResults.phase1.nextPhaseInputs.isSubStandard
                           ELSE FALSE],
     designParameters |-> IF "phase2" \in DOMAIN allResults
                          THEN Some(allResults.phase2.designParameters) ELSE Null,
     parkingParameters |-> IF "phase3" \in DOMAIN allResults
                           THEN Some(allResults.phase3.parkingParameters) ELSE Null,
     specialFeatures |-> IF "phase4" \in DOMAIN allResults
                         THEN Some(allResults.phase4.featureParameters) ELSE Null,
     complianceStatus |-> "Fully Compliant",
     estimatedTimeline |-> "3-6 months from design to permit approval"]

(***************************************************************************)
(* PlanningEngine: the five phase methods                                  *)
(***************************************************************************)
EmptyObject == <<>>

executePhase1(this, siteData) ==
    LET lotVerification == verifyLotSize(this, siteData)
        subStandardCheck == determineSubStandardStatus(this, siteData)
        zoneVerification == verifyZoneDistrict(siteData)
        historicCheck == assessHistoricStatus(siteData)
        environmentalCheck == assessEnvironmentalConstraints(siteData)
        constraints ==
            (IF subStandardCheck.isSubStandard
             THEN <<[type |-> "height_restriction"]>> ELSE <<>>)
            \o (IF historicCheck.historicCategory # ""
                THEN <<[type |-> "historic_restrictions"]>> ELSE <<>>)
    IN  IF lotVerification.status = "fail"
        THEN [phase |-> 1,
              phaseName |-> this.phases[1],
              status |-> "stopped",
              tasks |-> <<lotVerification>>,
              recommendations |-> <<[type |-> "critical"]>>,
              constraints |-> <<>>,
              nextPhaseInputs |-> EmptyObject]
        ELSE [phase |-> 1,
              phaseName |-> this.phases[1],
              status |-> "completed",
              tasks |-> <<lotVerification, subStandardCheck, zoneVerification,
                          historicCheck, environmentalCheck>>,
              recommendations |-> IF Len(constraints) = 0
                                  THEN <<[type |-> "success"]>> ELSE <<>>,
              constraints |-> constraints,
              nextPhaseInputs |->
                  [buildableArea |-> calculateBuildableArea(siteData),
                   isSubStandard |-> subStandardCheck.isSubStandard,
                   zoneRequirements |-> Lookup(this, siteData.zone),
                   constraints |-> constraints]]

executePhase2(this, siteData, phase1Results) ==
    LET isSubStandard == HandedOverSubStandard(phase1Results)
        heightParameters == calculateHeightParameters(isSubStandard)
        daylightPlane == calculateDaylightPlaneParameters(siteData)
        farCalculations == calculateFARParameters(siteData)
        setbackParameters == calculateSetbackParameters(siteData)
        architecturalFeatures == calculateArchitecturalFeatures
        designParameters ==
            [maxHeight |-> heightParameters.maxHeight,
             maxFloorArea |-> farCalculations.maxFloorArea,
             setbacks |-> setbackParameters,
             farBreakdown |-> farCalculations,
             buildingEnvelope |-> [daylightPlane |-> daylightPlane,
                                   architecturalFeatures |-> architecturalFeatures]]
    IN  [phase |-> 2,
         phaseName |-> this.phases[2],
         status |-> "completed",
         tasks |-> <<[name |-> "Building Height Limits", status |-> "completed"],
                     [name |-> "Daylight Plane Analysis", status |-> "completed"],
                     [name |-> "Floor Area Ratio (FAR) Calculations", status |-> "completed"],
                     [name |-> "Setback Requirements", status |-> "completed"],
                     [name |-> "Architectural Feature Compliance", status |-> "completed"]>>,
         recommendations |-> <<[type |-> "success"]>>,
         designParameters |-> designParameters,
         nextPhaseInputs |-> [designParameters |-> designParameters,
                              lotSize |-> siteData.lotSize,
                              isCornerLot |-> siteData.isCornerLot,
                              zone |-> siteData.zone]]

executePhase3(this, siteData, previousResults) ==
    LET parkingParameters ==
            [required |-> calculateParkingRequirements(siteData),
             driveway |-> calculateDrivewayParameters,
             garage |-> calculateGaragePlacement(siteData),
             access |-> calculateAccessRequirements]
    IN  [phase |-> 3,
         phaseName |-> this.phases[3],
         status |-> "completed",
         tasks |-> <<[name |-> "Parking Space Requirements", status |-> "completed"],
                     [name |-> "Driveway Design Parameters", status |-> "completed"],
                     [name |-> "Garage Placement Requirements", status |-> "completed"],
                     [name |-> "Vehicle Access and Maneuverability", status |-> "completed"]>>,
         recommendations |-> <<[type |-> "success"]>>,
         parkingParameters |-> parkingParameters,
         nextPhaseInputs |-> [parkingParameters |-> parkingParameters,
                              hasSecondUnit |-> siteData.hasSecondUnit,
                              lotSize |-> siteData.lotSize]]

executePhase4(this, siteData, previousResults) ==
    LET secondUnitAssessment == assessSecondUnitFeasibility(this, siteData)
        featureParameters ==
            [secondUnit |-> secondUnitAssessment.parameters,
             accessoryStructures |-> calculateAccessoryStructureParameters,
             poolSpa |-> calculatePoolParameters,
             coverage |-> calculateCoverageParameters(siteData)]
    IN  [phase |-> 4,
         phaseName |-> this.phases[4],
         status |-> "completed",
         tasks |-> <<secondUnitAssessment,
                     [name |-> "Accessory Structure Parameters", status |-> "completed"],
                     [name |-> "Pool and Spa Parameters", status |-> "completed"],
                     [name |-> "Lot Coverage and Landscape Requirements",
                      status |-> "completed"]>>,
         recommendations |-> <<>>,
         featureParameters |-> featureParameters,
         nextPhaseInputs |-> [featureParameters |-> featureParameters,
                              totalCompliance |-> assessOverallCompliance]]

executePhase5(this, siteData, allPreviousResults) ==
    [phase |-> 5,
     phaseName |-> this.phases[5],
     status |-> "completed",
     tasks |-> <<performFinalComplianceReview,
                 [name |-> "Documentation Requirements", status |-> "completed"],
                 [name |-> "Professional Consultation Requirements", status |-> "completed"],
                 [name |-> "Permit Submission Strategy", status |-> "completed"]>>,
     recommendations |-> <<[type |-> "success"]>>,
     documentation |-> EmptyObject,
     finalReport |-> generateFinalPlanningReport(siteData, allPreviousResults)]

(***************************************************************************)
(* ValidationEngine: helper methods                                        *)
(***************************************************************************)
\* the lot compared with the substandard threshold instead of the minimum
validateLotSizeAgainstSubStandard(this, siteData) ==
    LET zoneReq == Lookup(this, siteData.zone)
        isValid == Ge(siteData.lotSize, zoneReq.subStandardTypical)
    IN  [checkName |-> "Lot Size Validation",
         ruleId |-> "R001",
         result |-> IF isValid THEN "PASS" ELSE "FAIL",
         required |-> zoneReq.minLotSize,
         actual |-> siteData.lotSize]

validateLotSize(this, siteData) ==
    LET zoneReq == Lookup(this, siteData.zone)
        isValid == Ge(siteData.lotSize, zoneReq.minLotSize)
    IN  [checkName |-> "Lot Size Validation",
         ruleId |-> "R001",
         result |-> IF isValid THEN "PASS" ELSE "FAIL",
         required |-> zoneReq.minLotSize,
         actual |-> siteData.lotSize]

validateSubStandardStatus(this, siteData) ==
    LET zoneReq == Lookup(this, siteData.zone)
        threshold == IF siteData.lotType = "flag"
                     THEN zoneReq.subStandardFlag ELSE zoneReq.subStandardTypical
        isSubStandard == Lt(siteData.lotSize, threshold)
    IN  [checkName |-> "Substandard Lot Assessment",
         ruleId |-> undefined,
         result |-> "INFO",
         isSubStandard |-> isSubStandard,
         threshold |-> threshold]

validateZoneDistrict(siteData, designData) ==
    LET isValid == siteData.zone = designData.submittedZone
    IN  [checkName |-> "Zone District Verification",
         ruleId |-> undefined,
         result |-> IF isValid THEN "PASS" ELSE "FAIL",
         expected |-> siteData.zone,
         submitted |-> designData.submittedZone]

validateHistoricConstraints(siteData, designData) ==
    IF siteData.historicCategory = ""
    THEN [checkName |-> "Historic Property Constraints",
          ruleId |-> undefined,
          result |-> "PASS"]
    ELSE [checkName |-> "Historic Property Constraints",
          ruleId |-> undefined,
          result |-> IF designData.historicCompliance = "approved" THEN "PASS" ELSE "FAIL",
          category |-> siteData.historicCategory]

calculateBuildableAreaV(siteData) ==
    siteData.lotSize - OrZero(siteData.creekAreas) - OrZero(siteData.easements)

checkEnvironmentalEncroachments(siteData, designData) ==
    (IF Truthy(siteData.creekAreas) /\ Truthy(designData.buildingFootprint)
        /\ designData.encroachesCreek
     THEN <<"creek channel">> ELSE <<>>)
    \o (IF Truthy(siteData.easements) /\ Truthy(designData.buildingFootprint)
           /\ designData.encroachesEasement
        THEN <<"utility easement">> ELSE <<>>)

validateEnvironmentalExclusions(siteData, designData) ==
    LET buildableArea == calculateBuildableAreaV(siteData)
        encroachments == checkEnvironmentalEncroachments(siteData, designData)
    IN  [checkName |-> "Environmental Exclusions",
         ruleId |-> undefined,
         result |-> IF Len(encroachments) = 0 THEN "PASS" ELSE "FAIL",
         buildableArea |-> buildableArea,
         encroachments |-> encroachments]

\* a height check that a building of exactly the limit fails
validateBuildingHeightBelow(designData, isSubStandard) ==
    LET maxHeight == IF isSubStandard THEN 17 ELSE 30
        isValid == Lt(designData.buildingHeight, maxHeight)
    IN  [checkName |-> "Building Height Compliance",
         ruleId |-> "CP002",
         result |-> IF isValid THEN "PASS" ELSE "FAIL",
         maxAllowed |-> maxHeight,
         actual |-> designData.buildingHeight,
         isSubStandard |-> isSubStandard]

validateBuildingHeight(designData, isSubStandard) ==
    LET maxHeight == IF isSubStandard THEN 17 ELSE 30
        isValid == Le(designData.buildingHeight, maxHeight)
    IN  [checkName |-> "Building Height Compliance",
         ruleId |-> "CP002",
         result |-> IF isValid THEN "PASS" ELSE "FAIL",
         maxAllowed |-> maxHeight,
         actual |-> designData.buildingHeight,
         isSubStandard |-> isSubStandard]

validateStoryEquivalency(designData) ==
    LET violations ==
            (IF Ge(designData.floors, 2) /\ Gt(designData.secondFloorCeiling, 17)
             THEN <<"secondFloorCeiling">> ELSE <<>>)
            \o (IF Ge(designData.floors, 3) /\ Gt(designData.thirdFloorCeiling, 26)
                THEN <<"thirdFloorCeiling">> ELSE <<>>)
    IN  [checkName |-> "Story Height Equivalency",
         ruleId |-> undefined,
         result |-> IF Len(violations) = 0 THEN "PASS" ELSE "FAIL",
         violations |-> violations]

\* a setback check that asks for the street side setback on every lot
validateSetbacksEveryLot(siteData, designData) ==
    LET violations ==
            (IF Lt(designData.frontSetback, 20) THEN <<"frontSetback">> ELSE <<>>)
            \o (IF Lt(designData.interiorSideSetback, 5)
                THEN <<"interiorSideSetback">> ELSE <<>>)
            \o (IF Lt(designData.streetSideSetback, 16)
                THEN <<"streetSideSetback">> ELSE <<>>)
            \o (IF Lt(designData.rearSetback, 20) THEN <<"rearSetback">> ELSE <<>>)
    IN  [checkName |-> "Setback Compliance",
         ruleId |-> "CP004",
         result |-> IF Len(violations) = 0 THEN "PASS" ELSE "FAIL",
         violations |-> violations]

validateSetbacks(siteData, designData) ==
    LET violations ==
            (IF Lt(designData.frontSetback, 20) THEN <<"frontSetback">> ELSE <<>>)
            \o (IF Lt(designData.interiorSideSetback, 5)
                THEN <<"interiorSideSetback">> ELSE <<>>)
            \o (IF siteData.isCornerLot /\ Lt(designData.streetSideSetback, 16)
                THEN <<"streetSideSetback">> ELSE <<>>)
            \o (IF Lt(designData.rearSetback, 20) THEN <<"rearSetback">> ELSE <<>>)
    IN  [checkName |-> "Setback Compliance",
         ruleId |-> "CP004",
         result |-> IF Len(violations) = 0 THEN "PASS" ELSE "FAIL",
         violations |-> violations]

\* maxAllowed and the calculation in hundredths of a square foot
validateFAR(siteData, designData) ==
    LET first5000 == Min(siteData.lotSize, 5000) * 45
        excess == Max(siteData.lotSize - 5000, 0) * 30
        calculated == first5000 + excess
        maxAllowed == Min(calculated, 6000 * 100)
        isValid == Le(Hundredths(designData.totalFloorArea), maxAllowed)
    IN  [checkName |-> "Floor Area Ratio (FAR) Validation",
         ruleId |-> "CP003",
         result |-> IF isValid THEN "PASS" ELSE "FAIL",
         maxAllowed |-> maxAllowed,
         actual |-> designData.totalFloorArea,
         calculation |-> [first5000Allowance |-> first5000,
                          excessAllowance |-> excess,
                          calculatedFAR |-> calculated,
                          finalMax |-> maxAllowed]]

\* designData.daylightPlaneCompliant !== false
validateDaylightPlane(siteData, designData) ==
    LET compliant == designData.daylightPlaneCompliant # Some(FALSE)
    IN  [checkName |-> "Daylight Plane Compliance",
         ruleId |-> "CP005",
         result |-> IF compliant THEN "PASS" ELSE "FAIL"]

validateArchitecturalFeatures(designData) ==
    LET violations ==
            (IF Truthy(designData.porchArea) /\ Gt(designData.porchArea, 200)
             THEN <<"porchArea">> ELSE <<>>)
            \o (IF Truthy(designData.entryProjection) /\ Gt(designData.entryProjection, 6)
                THEN <<"entryProjection">> ELSE <<>>)
            \o (IF Truthy(designData.bayWindowProjection)
                   /\ Gt(designData.bayWindowProjection, 3)
                THEN <<"bayWindowProjection">> ELSE <<>>)
    IN  [checkName |-> "Architectural Feature Compliance",
         ruleId |-> undefined,
         result |-> IF Len(violations) = 0 THEN "PASS" ELSE "FAIL",
         violations |-> violations]

\* maxAllowed in hundredths of a square foot
\* the coverage compared with the 35% base alone
validateLotCoverageBase(siteData, designData) ==
    LET maxCoverageBase == siteData.lotSize * 35
        isValid == Le(Hundredths(designData.totalCoverage), maxCoverageBase)
    IN  [checkName |-> "Lot Coverage Validation",
         ruleId |-> "CP013",
         result |-> IF isValid THEN "PASS" ELSE "FAIL",
         maxAllowed |-> maxCoverageBase,
         actual |-> designData.totalCoverage]

validateLotCoverage(siteData, designData) ==
    LET maxCoverageBase == siteData.lotSize * 35
        additionalAllowance == siteData.lotSize * 5
        totalMaxCoverage == maxCoverageBase + additionalAllowance
        isValid == Le(Hundredths(designData.totalCoverage), totalMaxCoverage)
    IN  [checkName |-> "Lot Coverage Validation",
         ruleId |-> "CP013",
         result |-> IF isValid THEN "PASS" ELSE "FAIL",
         maxAllowed |-> totalMaxCoverage,
         actual |-> designData.totalCoverage]

validateParkingSpaceCount(designData) ==
    LET required == IF designData.hasSecondUnit THEN 2 + 2 ELSE 2
        isValid == Ge(designData.parkingSpaces, required)
    IN  [checkName |-> "Parking Space Count",
         ruleId |-> "CP006",
         result |-> IF isValid THEN "PASS" ELSE "FAIL",
         required |-> required,
         provided |-> designData.parkingSpaces]

validateCoveredParking(designData) ==
    LET required == IF designData.hasSecondUnit THEN 1 + 1 ELSE 1
        isValid == Ge(designData.coveredParkingSpaces, required)
    IN  [checkName |-> "Covered Parking Validation",
         ruleId |-> undefined,
         result |-> IF isValid THEN "PASS" ELSE "FAIL",
         required |-> required,
         provided |-> designData.coveredParkingSpaces]

validateDrivewayDimensions(designData) ==
    LET violations ==
            (IF Lt(designData.drivewaySurfaceWidth, 8)
             THEN <<"drivewaySurfaceWidth">> ELSE <<>>)
            \o (IF Lt(designData.drivewayClearanceWidth, 10)
                THEN <<"drivewayClearanceWidth">> ELSE <<>>)
    IN  [checkName |-> "Driveway Dimensions",
         ruleId |-> undefined,
         result |-> IF Len(violations) = 0 THEN "PASS" ELSE "FAIL",
         violations |-> violations]

\* the corner lot thresholds never applied
validateGaragePlacementInterior(siteData, designData) ==
    IF ~designData.hasGarage
    THEN [checkName |-> "Garage Placement", ruleId |-> undefined, result |-> "N/A"]
    ELSE LET frontOk == Ge(designData.garageFrontSetback, 20)
         IN  IF ~frontOk
             THEN [checkName |-> "Garage Placement",
                   ruleId |-> "CP014", result |-> "FAIL"]
             ELSE [checkName |-> "Garage Placement",
                   ruleId |-> undefined, result |-> "PASS"]

validateGaragePlacement(siteData, designData) ==
    IF ~designData.hasGarage
    THEN [checkName |-> "Garage Placement", ruleId |-> undefined, result |-> "N/A"]
    ELSE IF siteData.isCornerLot
    THEN LET frontOk == Ge(designData.garageFrontSetback, 75)
             streetSideOk == Ge(designData.garageStreetSideSetback, 20)
         IN  IF ~frontOk \/ ~streetSideOk
             THEN [checkName |-> "Garage Placement (Corner Lot)",
                   ruleId |-> "CP014", result |-> "FAIL"]
             ELSE [checkName |-> "Garage Placement",
                   ruleId |-> undefined, result |-> "PASS"]
    ELSE LET frontOk == Ge(designData.garageFrontSetback, 20)
         IN  IF ~frontOk
             THEN [checkName |-> "Garage Placement",
                   ruleId |-> "CP014", result |-> "FAIL"]
             ELSE [checkName |-> "Garage Placement",
                   ruleId |-> undefined, result |-> "PASS"]

validateVehicleManeuverability(designData) ==
    LET backingOk == Ge(designData.backingDistance, 18)
    IN  [checkName |-> "Vehicle Maneuverability",
         ruleId |-> undefined,
         result |-> IF backingOk THEN "PASS" ELSE "FAIL",
         required |-> 18,
         actual |-> designData.backingDistance]

validateDrivewayMaterials(designData) ==
    LET approvedMaterials == {"concrete", "asphalt", "approved_pavers"}
        isValid == designData.drivewayMaterial \in approvedMaterials
    IN  [checkName |-> "Driveway Materials",
         ruleId |-> undefined,
         result |-> IF isValid THEN "PASS" ELSE "FAIL",
         specified |-> designData.drivewayMaterial]

validateSecondDwellingUnit(this, siteData, designData) ==
    LET zoneReq == Lookup(this, siteData.zone)
        minRequired == IF siteData.lotType = "flag"
                       THEN zoneReq.secondUnitMinFlag ELSE zoneReq.secondUnitMinTypical
        isValid == Ge(siteData.lotSize, minRequired)
    IN  [checkName |-> "Second Dwelling Unit Lot Size",
         ruleId |-> "CP008",
         result |-> IF isValid THEN "PASS" ELSE "FAIL",
         required |-> minRequired,
         actual |-> siteData.lotSize]

\* the size compared with 640 square feet alone
validateSecondUnitSizeAbsolute(designData) ==
    LET maxSize == 640 * 100
        isValid == Le(Hundredths(designData.secondUnitArea), maxSize)
    IN  [checkName |-> "Second Unit Size",
         ruleId |-> "CP017",
         result |-> IF isValid THEN "PASS" ELSE "FAIL",
         maxAllowed |-> maxSize,
         actual |-> designData.secondUnitArea]

\* maxAllowed = Math.min(640, mainHouseArea * 0.5) in hundredths of a square foot;
\* NaN (Undef) when mainHouseArea is undefined
validateSecondUnitSize(designData) ==
    LET maxSize == IF designData.mainHouseArea = Undef THEN Undef
                   ELSE Min(640 * 100, designData.mainHouseArea * 50)
        isValid == Le(Hundredths(designData.secondUnitArea), maxSize)
    IN  [checkName |-> "Second Unit Size",
         ruleId |-> "CP017",
         result |-> IF isValid THEN "PASS" ELSE "FAIL",
         maxAllowed |-> maxSize,
         actual |-> designData.secondUnitArea]

RECURSIVE AccessoryViolationsFrom(_, _)
AccessoryViolationsFrom(structures, index) ==
    IF index > Len(structures) THEN <<>>
    ELSE (IF Gt(structures[index].height, 15)
          THEN <<[structure |-> index, what |-> "height"]>> ELSE <<>>)
         \o (IF Lt(structures[index].setback, 5)
             THEN <<[structure |-> index, what |-> "setback"]>> ELSE <<>>)
         \o AccessoryViolationsFrom(structures, index + 1)

\* an entry of the array that is null: reading structure.height throws a
\* TypeError
NullEntry == [null |-> TRUE]

validateAccessoryStructuresThrows(designData) ==
    \E index \in 1..Len(designData.accessoryStructures) :
        designData.accessoryStructures[index] = NullEntry

validateAccessoryStructures(designData) ==
    LET violations == AccessoryViolationsFrom(designData.accessoryStructures, 1)
    IN  [checkName |-> "Accessory Structures",
         ruleId |-> undefined,
         result |-> IF Len(violations) = 0 THEN "PASS" ELSE "FAIL",
         violations |-> violations]

validatePoolSafety(designData) ==
    LET violations ==
            (IF Lt(designData.poolSetback, 5) THEN <<"poolSetback">> ELSE <<>>)
            \o (IF ~designData.poolSafetyBarriers THEN <<"poolSafetyBarriers">> ELSE <<>>)
    IN  [checkName |-> "Pool Safety",
         ruleId |-> "CP020",
         result |-> IF Len(violations) = 0 THEN "PASS" ELSE "FAIL",
         violations |-> violations]

\* lotSize * 0.40 in hundredths of a square foot
validateTotalCoverageWithFeatures(siteData, designData) ==
    LET isValid == Le(Hundredths(designData.totalCoverageWithFeatures),
                      siteData.lotSize * 40)
    IN  [checkName |-> "Total Coverage With Features",
         ruleId |-> undefined,
         result |-> IF isValid THEN "PASS" ELSE "FAIL"]

performComprehensiveValidation(siteData, designData) ==
    [checkName |-> "Comprehensive Rule Validation",
     ruleId |-> undefined,
     result |-> "PASS",
     totalChecks |-> 127, passed |-> 127, failed |-> 0]

RECURSIVE ViolationsOf(_)
ViolationsOf(phaseResults) ==
    IF phaseResults = <<>> THEN <<>>
    ELSE Head(phaseResults).violations \o ViolationsOf(Tail(phaseResults))

\* the critical path check counting every violation of the earlier phases
validateCriticalPathEveryViolation(this, allResults) ==
    LET criticalViolations == ViolationsOf(ObjectValues(allResults))
    IN  [checkName |-> "Critical Path Validation",
         ruleId |-> undefined,
         result |-> IF Len(criticalViolations) = 0 THEN "PASS" ELSE "FAIL",
         criticalViolations |-> criticalViolations]

validateCriticalPath(this, allResults) ==
    LET criticalViolations ==
            FilterType(ViolationsOf(ObjectValues(allResults)),
                       this.criticalViolationTypes.ABSOLUTE_STOPPER)
    IN  [checkName |-> "Critical Path Validation",
         ruleId |-> undefined,
         result |-> IF Len(criticalViolations) = 0 THEN "PASS" ELSE "FAIL",
         criticalViolations |-> criticalViolations]

RECURSIVE Missing(_, _)
Missing(required, present) ==
    IF required = <<>> THEN <<>>
    ELSE (IF Head(required) \notin present THEN <<Head(required)>> ELSE <<>>)
         \o Missing(Tail(required), present)

validateProfessionalRequirements(designData) ==
    LET requiredStamps == <<"Architect", "Structural Engineer">>
        missingStamps == Missing(requiredStamps, designData.professionalStamps)
    IN  [checkName |-> "Professional Requirements",
         ruleId |-> undefined,
         result |-> IF Len(missingStamps) = 0 THEN "PASS" ELSE "FAIL",
         missing |-> missingStamps]

validateDocumentationCompleteness(designData) ==
    LET requiredDocs == <<"site_plan", "floor_plans", "elevations", "structural_calcs">>
        missingDocs == Missing(requiredDocs, designData.submittedDocuments)
    IN  [checkName |-> "Documentation Completeness",
         ruleId |-> undefined,
         result |-> IF Len(missingDocs) = 0 THEN "PASS" ELSE "FAIL",
         missing |-> missingDocs]

\* the violations of the last phase alone
collectCurrentViolations(allPreviousResults, currentResults) ==
    currentResults.violations

collectAllViolations(allPreviousResults, currentResults) ==
    ViolationsOf(ObjectValues(allPreviousResults)) \o currentResults.violations

\* the lookup with the count asked before the critical violations
estimateResolutionTimeByCount(this, violations) ==
    LET criticalViolations ==
            Len(FilterType(violations, this.criticalViolationTypes.ABSOLUTE_STOPPER))
    IN  IF Len(violations) > 5 THEN "2-6 weeks (design revisions)"
        ELSE IF criticalViolations > 0 THEN "4-12 weeks (major redesign)"
        ELSE IF Len(violations) > 0 THEN "1-3 weeks (minor corrections)"
        ELSE "Ready for submission"

estimateResolutionTime(this, violations) ==
    LET criticalViolations ==
            Len(FilterType(violations, this.criticalViolationTypes.ABSOLUTE_STOPPER))
    IN  IF criticalViolations > 0 THEN "4-12 weeks (major redesign)"
        ELSE IF Len(violations) > 5 THEN "2-6 weeks (design revisions)"
        ELSE IF Len(violations) > 0 THEN "1-3 weeks (minor corrections)"
        ELSE "Ready for submission"

generateNextSteps(overallStatus, violations) ==
    IF overallStatus = "APPROVED" THEN "Design fully compliant"
    ELSE IF overallStatus = "CONDITIONAL" THEN "Address identified violations"
    ELSE "Major redesign required"

\* allResults.phaseK?.status || "not_run"
PhaseStatusOrNotRun(allResults, key) ==
    IF key \in DOMAIN allResults THEN allResults[key].status ELSE "not_run"

generateValidationReport(this, siteData, designData, allResults, finalResults) ==
    LET allViolations == collectAllViolations(allResults, finalResults)
        types == this.criticalViolationTypes
        criticalViolations == FilterType(allViolations, types.ABSOLUTE_STOPPER)
        majorViolations == FilterType(allViolations, types.MAJOR_STOPPER)
        designViolations == FilterType(allViolations, types.DESIGN_STOPPER)
        processViolations == FilterType(allViolations, types.PROCESS_STOPPER)
        overallStatus == IF Len(criticalViolations) > 0 THEN "REJECTED"
                         ELSE IF Len(allViolations) > 0 THEN "CONDITIONAL"
                         ELSE "APPROVED"
    IN  [projectSummary |-> [address |-> siteData.address,
                             zone |-> siteData.zone,
                             lotSize |-> siteData.lotSize,
                             validationDate |-> "set"],
         overallStatus |-> overallStatus,
         violationSummary |-> [total |-> Len(allViolations),
                               critical |-> Len(criticalViolations),
                               major |-> Len(majorViolations),
                               design |-> Len(designViolations),
                               process |-> Len(processViolations)],
         phaseResults |-> [phase1 |-> PhaseStatusOrNotRun(allResults, "phase1"),
                           phase2 |-> PhaseStatusOrNotRun(allResults, "phase2"),
                           phase3 |-> PhaseStatusOrNotRun(allResults, "phase3"),
                           phase4 |-> PhaseStatusOrNotRun(allResults, "phase4"),
                           phase5 |-> finalResults.status],
         violations |-> [critical |-> criticalViolations,
                         major |-> majorViolations,
                         design |-> designViolations,
                         process |-> processViolations],
         nextSteps |-> generateNextSteps(overallStatus, allViolations),
         estimatedResolution |-> estimateResolutionTime(this, allViolations)]

(***************************************************************************)
(* ValidationEngine: the five phase methods                                *)
(***************************************************************************)
\* the results object a validation phase starts from
NewResults(this, k) ==
    [phase |-> k,
     phaseName |-> this.phases[k],
     status |-> "in_progress",
     validationChecks |-> <<>>,
     violations |-> <<>>,
     warnings |-> <<>>,
     passed |-> 0,
     failed |-> 0,
     nextPhaseInputs |-> EmptyObject]

\* results.validationChecks.push(check);
\* if (check.result === "FAIL") { results.violations.push(violation); results.failed++ }
\* else { results.passed++ }
\* the counting that takes only a PASS as passed
CountedOnPass(results, check, violation) ==
    IF check.result = "FAIL"
    THEN [results EXCEPT !.validationChecks = Append(@, check),
                         !.violations = Append(@, violation),
                         !.failed = @ + 1]
    ELSE [results EXCEPT !.validationChecks = Append(@, check),
                         !.passed = IF check.result = "PASS" THEN @ + 1 ELSE @]

Counted(results, check, violation) ==
    IF check.result = "FAIL"
    THEN [results EXCEPT !.validationChecks = Append(@, check),
                         !.violations = Append(@, violation),
                         !.failed = @ + 1]
    ELSE [results EXCEPT !.validationChecks = Append(@, check),
                         !.passed = @ + 1]

\* results.validationChecks.push(check), with no counter touched
Pushed(results, check) ==
    [results EXCEPT !.validationChecks = Append(@, check)]

\* a status that a warning also turns to violations_found
StatusFromFindings(results) ==
    [results EXCEPT !.status = IF Len(results.violations) + Len(results.warnings) > 0
                               THEN "violations_found" ELSE "passed"]

\* results.status = results.violations.length > 0 ? "violations_found" : "passed"
StatusFromViolations(results) ==
    [results EXCEPT !.status = IF Len(results.violations) > 0
                               THEN "violations_found" ELSE "passed"]

Violation(type, ruleId, category) ==
    [type |-> type, ruleId |-> ruleId, category |-> category]

executePhase1Validation(this, siteData, designData) ==
    LET types == this.criticalViolationTypes
        r0 == NewResults(this, 1)
        lotSizeCheck == validateLotSize(this, siteData)
        r1 == Counted(r0, lotSizeCheck,
                      Violation(types.ABSOLUTE_STOPPER, "CP001", "Lot Requirements"))
        subStandardCheck == validateSubStandardStatus(this, siteData)
        r2 == [Pushed(r1, subStandardCheck) EXCEPT
                  !.warnings = IF subStandardCheck.isSubStandard
                               THEN Append(@, [type |-> "height_restriction"]) ELSE @]
        zoneCheck == validateZoneDistrict(siteData, designData)
        r3 == IF zoneCheck.result = "PASS"
              THEN [Pushed(r2, zoneCheck) EXCEPT !.passed = @ + 1]
              ELSE [Pushed(r2, zoneCheck) EXCEPT
                       !.failed = @ + 1,
                       !.violations = Append(@, Violation(types.ABSOLUTE_STOPPER, "V001",
                                                          "Zone Verification"))]
        historicCheck == validateHistoricConstraints(siteData, designData)
        r4 == Counted(r3, historicCheck,
                      Violation(types.MAJOR_STOPPER, "CP009", "Historic Properties"))
        environmentalCheck == validateEnvironmentalExclusions(siteData, designData)
        r5 == Counted(r4, environmentalCheck,
                      Violation(types.MAJOR_STOPPER, "CP012", "Environmental"))
        r6 == [r5 EXCEPT !.nextPhaseInputs =
                  [isSubStandard |-> subStandardCheck.isSubStandard,
                   zoneRequirements |-> Lookup(this, siteData.zone),
                   buildableArea |-> calculateBuildableAreaV(siteData),
                   historicCategory |-> siteData.historicCategory]]
    IN  IF lotSizeCheck.result = "FAIL"
        THEN [r1 EXCEPT !.status = "critical_failure"]
        ELSE StatusFromViolations(r6)

executePhase2Validation(this, siteData, designData, phase1Results) ==
    LET types == this.criticalViolationTypes
        isSubStandard == HandedOverSubStandard(phase1Results)
        r0 == NewResults(this, 2)
        r1 == Counted(r0, validateBuildingHeight(designData, isSubStandard),
                      Violation(types.ABSOLUTE_STOPPER, "CP002", "Building Height"))
        r2 == Counted(r1, validateStoryEquivalency(designData),
                      Violation(types.DESIGN_STOPPER, "CP015", "Story Height"))
        r3 == Counted(r2, validateSetbacks(siteData, designData),
                      Violation(types.ABSOLUTE_STOPPER, "CP004", "Setbacks"))
        r4 == Counted(r3, validateFAR(siteData, designData),
                      Violation(types.ABSOLUTE_STOPPER, "CP003", "Floor Area"))
        r5 == Counted(r4, validateDaylightPlane(siteData, designData),
                      Violation(types.MAJOR_STOPPER, "CP005", "Building Envelope"))
        r6 == Counted(r5, validateArchitecturalFeatures(designData),
                      Violation(types.DESIGN_STOPPER, undefined, "Architectural Features"))
        r7 == Counted(r6, validateLotCoverage(siteData, designData),
                      Violation(types.DESIGN_STOPPER, "CP013", "Lot Coverage"))
    IN  StatusFromViolations(r7)

\* the materials check treated like the five checks before it
executePhase3ValidationUniform(this, siteData, designData, previousResults) ==
    LET types == this.criticalViolationTypes
        r0 == NewResults(this, 3)
        r1 == Counted(r0, validateParkingSpaceCount(designData),
                      Violation(types.MAJOR_STOPPER, "CP006", "Parking"))
        r2 == Counted(r1, validateCoveredParking(designData),
                      Violation(types.MAJOR_STOPPER, undefined, "Covered Parking"))
        r3 == Counted(r2, validateDrivewayDimensions(designData),
                      Violation(types.MAJOR_STOPPER, "CP007", "Access"))
        r4 == Counted(r3, validateGaragePlacement(siteData, designData),
                      Violation(types.DESIGN_STOPPER, "CP014", "Garage Placement"))
        r5 == Counted(r4, validateVehicleManeuverability(designData),
                      Violation(types.MAJOR_STOPPER, undefined, "Vehicle Access"))
        r6 == Counted(r5, validateDrivewayMaterials(designData),
                      Violation(types.DESIGN_STOPPER, undefined, "Driveway Materials"))
    IN  StatusFromViolations(r6)

executePhase3Validation(this, siteData, designData, previousResults) ==
    LET types == this.criticalViolationTypes
        r0 == NewResults(this, 3)
        r1 == Counted(r0, validateParkingSpaceCount(designData),
                      Violation(types.MAJOR_STOPPER, "CP006", "Parking"))
        r2 == Counted(r1, validateCoveredParking(designData),
                      Violation(types.MAJOR_STOPPER, undefined, "Covered Parking"))
        r3 == Counted(r2, validateDrivewayDimensions(designData),
                      Violation(types.MAJOR_STOPPER, "CP007", "Access"))
        r4 == Counted(r3, validateGaragePlacement(siteData, designData),
                      Violation(types.DESIGN_STOPPER, "CP014", "Garage Placement"))
        r5 == Counted(r4, validateVehicleManeuverability(designData),
                      Violation(types.MAJOR_STOPPER, undefined, "Vehicle Access"))
        materialsCheck == validateDrivewayMaterials(designData)
        r6 == IF materialsCheck.result = "FAIL"
              THEN [Pushed(r5, materialsCheck) EXCEPT
                       !.warnings = Append(@, [type |-> "materials"])]
              ELSE [Pushed(r5, materialsCheck) EXCEPT !.passed = @ + 1]
    IN  StatusFromViolations(r6)

\* a phase 4 that runs the pool check on every design
executePhase4ValidationEveryPool(this, siteData, designData, previousResults) ==
    LET types == this.criticalViolationTypes
        r0 == NewResults(this, 4)
        r1 == IF designData.hasSecondUnit
              THEN Counted(r0, validateSecondDwellingUnit(this, siteData, designData),
                           Violation(types.MAJOR_STOPPER, "CP008", "Second Dwelling Unit"))
              ELSE r0
        r2 == IF designData.hasSecondUnit
              THEN Counted(r1, validateSecondUnitSize(designData),
                           Violation(types.DESIGN_STOPPER, "CP017", "Second Unit Design"))
              ELSE r1
        r3 == IF Len(designData.accessoryStructures) > 0
              THEN Counted(r2, validateAccessoryStructures(designData),
                           Violation(types.DESIGN_STOPPER, undefined,
                                     "Accessory Structures"))
              ELSE r2
        r4 == Counted(r3, validatePoolSafety(designData),
                      Violation(types.DESIGN_STOPPER, "CP020", "Pool Safety"))
        r5 == Counted(r4, validateTotalCoverageWithFeatures(siteData, designData),
                      Violation(types.DESIGN_STOPPER, undefined, "Total Coverage"))
    IN  StatusFromViolations(r5)

executePhase4Validation(this, siteData, designData, previousResults) ==
    LET types == this.criticalViolationTypes
        r0 == NewResults(this, 4)
        r1 == IF designData.hasSecondUnit
              THEN Counted(r0, validateSecondDwellingUnit(this, siteData, designData),
                           Violation(types.MAJOR_STOPPER, "CP008", "Second Dwelling Unit"))
              ELSE r0
        r2 == IF designData.hasSecondUnit
              THEN Counted(r1, validateSecondUnitSize(designData),
                           Violation(types.DESIGN_STOPPER, "CP017", "Second Unit Design"))
              ELSE r1
        r3 == IF Len(designData.accessoryStructures) > 0
              THEN Counted(r2, validateAccessoryStructures(designData),
                           Violation(types.DESIGN_STOPPER, undefined,
                                     "Accessory Structures"))
              ELSE r2
        r4 == IF designData.hasPool
              THEN Counted(r3, validatePoolSafety(designData),
                           Violation(types.DESIGN_STOPPER, "CP020", "Pool Safety"))
              ELSE r3
        r5 == Counted(r4, validateTotalCoverageWithFeatures(siteData, designData),
                      Violation(types.DESIGN_STOPPER, undefined, "Total Coverage"))
    IN  StatusFromViolations(r5)

\* the status the final report is built from is still "in_progress": the report
\* is generated before the final status is determined
executePhase5Validation(this, siteData, designData, allPreviousResults) ==
    LET types == this.criticalViolationTypes
        blank == NewResults(this, 5)
        r0 == [phase |-> blank.phase,
               phaseName |-> blank.phaseName,
               status |-> blank.status,
               validationChecks |-> <<>>,
               violations |-> <<>>,
               warnings |-> <<>>,
               passed |-> 0,
               failed |-> 0,
               finalReport |-> Null]
        r1 == Pushed(r0, performComprehensiveValidation(siteData, designData))
        r2 == Pushed(r1, validateCriticalPath(this, allPreviousResults))
        r3 == Counted(r2, validateProfessionalRequirements(designData),
                      Violation(types.PROCESS_STOPPER, undefined,
                                "Professional Requirements"))
        r4 == Counted(r3, validateDocumentationCompleteness(designData),
                      Violation(types.PROCESS_STOPPER, undefined, "Documentation"))
        r5 == [r4 EXCEPT !.finalReport =
                  Some(generateValidationReport(this, siteData, designData,
                                                allPreviousResults, r4))]
        allViolations == collectAllViolations(allPreviousResults, r5)
        criticalViolations == FilterType(allViolations, types.ABSOLUTE_STOPPER)
    IN  [r5 EXCEPT !.status = IF Len(criticalViolations) > 0 THEN "rejected"
                              ELSE IF Len(allViolations) > 0 THEN "conditional"
                              ELSE "approved"]

(***************************************************************************)
(* The workflow methods, one step per phase call.  A run is one call of    *)
(* executePlanningWorkflow or executeValidationWorkflow: its workflow      *)
(* object, the place it has reached (pc) and the phase calls it has made   *)
(* (calls: the phase number and the keys of the earlier results it was     *)
(* handed).                                                                *)
(***************************************************************************)
NewPlanningWorkflow(siteData) ==
    [startTime |-> "set",
     siteData |-> siteData,
     phases |-> EmptyObject,
     overallStatus |-> "in_progress",
     finalReport |-> Null,
     stopReason |-> undefined,
     error |-> undefined,
     endTime |-> undefined]

NewValidationWorkflow(siteData, designData) ==
    [startTime |-> "set",
     siteData |-> siteData,
     designData |-> designData,
     phases |-> EmptyObject,
     overallStatus |-> "in_progress",
     finalReport |-> Null,
     stopReason |-> undefined,
     error |-> undefined,
     endTime |-> undefined]

PlanningRun(e, siteData) ==
    [kind |-> "planning", engine |-> e, pc |-> "phase1",
     workflow |-> NewPlanningWorkflow(siteData), calls |-> <<>>, thrown |-> 0]

ValidationRun(e, siteData, designData) ==
    [kind |-> "validation", engine |-> e, pc |-> "phase1",
     workflow |-> NewValidationWorkflow(siteData, designData), calls |-> <<>>,
     thrown |-> 0]

\* a catch that starts the workflow record over
CaughtDiscarding(run, k) ==
    [run EXCEPT !.pc = "returned",
                !.thrown = k,
                !.workflow.phases = EmptyObject,
                !.workflow.overallStatus = "error",
                !.workflow.error = "TypeError"]

\* catch (error) { workflow.overallStatus = "error"; workflow.error = error.message }
\* return workflow; thrown notes the phase call the error came out of
Caught(run, k) ==
    [run EXCEPT !.pc = "returned",
                !.thrown = k,
                !.workflow.overallStatus = "error",
                !.workflow.error = "TypeError"]

\* workflow.phases.phaseK = phaseKResults, and the call noted
Stored(run, key, results, k, received) ==
    [run EXCEPT !.workflow.phases = @ @@ (key :> results),
                !.calls = Append(@, [phase |-> k, received |-> received])]

\* the objects of earlier results handed to phases 3, 4 and 5
ResultsForPhase3(phases) ==
    [phase1 |-> phases.phase1, phase2 |-> phases.phase2]

ResultsForPhase4(phases) ==
    [phase1 |-> phases.phase1, phase2 |-> phases.phase2, phase3 |-> phases.phase3]

ResultsForPhase5(phases) ==
    [phase1 |-> phases.phase1, phase2 |-> phases.phase2, phase3 |-> phases.phase3,
     phase4 |-> phases.phase4]

\* a planning workflow that also stops when nothing of the lot is buildable
PlanningAfterPhase1Unbuildable(run, phase1Results) ==
    LET stored == Stored(run, "phase1", phase1Results, 1, {})
    IN  IF \/ phase1Results.status = "stopped"
           \/ phase1Results.nextPhaseInputs.buildableArea <= 0
        THEN [stored EXCEPT !.pc = "returned",
                            !.workflow.overallStatus = "stopped",
                            !.workflow.stopReason = "Critical site constraints identified"]
        ELSE [stored EXCEPT !.pc = "phase2"]

\* ---- executePlanningWorkflow ----
PlanningAfterPhase1(run, phase1Results) ==
    LET stored == Stored(run, "phase1", phase1Results, 1, {})
    IN  IF phase1Results.status = "stopped"
        THEN [stored EXCEPT !.pc = "returned",
                            !.workflow.overallStatus = "stopped",
                            !.workflow.stopReason = "Critical site constraints identified"]
        ELSE [stored EXCEPT !.pc = "phase2"]

PlanningStep1(this, run) ==
    IF ~KnownZone(this, run.workflow.siteData.zone)
    THEN Caught(run, 1)
    ELSE PlanningAfterPhase1(run, executePhase1(this, run.workflow.siteData))

PlanningStep2(this, run) ==
    LET w == run.workflow
        phase2Results == executePhase2(this, w.siteData, w.phases.phase1)
    IN  [Stored(run, "phase2", phase2Results, 2, {"phase1"}) EXCEPT !.pc = "phase3"]

PlanningStep3(this, run) ==
    LET w == run.workflow
        previousResults == ResultsForPhase3(w.phases)
        phase3Results == executePhase3(this, w.siteData, previousResults)
    IN  [Stored(run, "phase3", phase3Results, 3, DOMAIN previousResults)
            EXCEPT !.pc = "phase4"]

PlanningStep4(this, run) ==
    LET w == run.workflow
        previousResults == ResultsForPhase4(w.phases)
        phase4Results == executePhase4(this, w.siteData, previousResults)
    IN  IF ~KnownZone(this, w.siteData.zone)
        THEN Caught(run, 4)
        ELSE [Stored(run, "phase4", phase4Results, 4, DOMAIN previousResults)
                 EXCEPT !.pc = "phase5"]

\* a last step that does not stamp the end of the workflow
PlanningStep5WithoutEnd(this, run) ==
    LET w == run.workflow
        allPreviousResults == ResultsForPhase5(w.phases)
        phase5Results == executePhase5(this, w.siteData, allPreviousResults)
    IN  [Stored(run, "phase5", phase5Results, 5, DOMAIN allPreviousResults)
            EXCEPT !.pc = "returned",
                   !.workflow.overallStatus = "completed",
                   !.workflow.finalReport = Some(phase5Results.finalReport)]

PlanningStep5(this, run) ==
    LET w == run.workflow
        allPreviousResults == ResultsForPhase5(w.phases)
        phase5Results == executePhase5(this, w.siteData, allPreviousResults)
    IN  [Stored(run, "phase5", phase5Results, 5, DOMAIN allPreviousResults)
            EXCEPT !.pc = "returned",
                   !.workflow.overallStatus = "completed",
                   !.workflow.finalReport = Some(phase5Results.finalReport),
                   !.workflow.endTime = "set"]

\* a validation that stops on any violation of phase 1
ValidationAfterPhase1Strict(run, phase1Results) ==
    LET stored == Stored(run, "phase1", phase1Results, 1, {})
    IN  IF Len(phase1Results.violations) > 0
        THEN [stored EXCEPT !.pc = "returned",
                            !.workflow.overallStatus = "rejected",
                            !.workflow.stopReason = "Critical site validation failures"]
        ELSE [stored EXCEPT !.pc = "phase2"]

\* ---- executeValidationWorkflow ----
ValidationAfterPhase1(run, phase1Results) ==
    LET stored == Stored(run, "phase1", phase1Results, 1, {})
    IN  IF phase1Results.status = "critical_failure"
        THEN [stored EXCEPT !.pc = "returned",
                            !.workflow.overallStatus = "rejected",
                            !.workflow.stopReason = "Critical site validation failures"]
        ELSE [stored EXCEPT !.pc = "phase2"]

ValidationStep1(this, run) ==
    IF ~KnownZone(this, run.workflow.siteData.zone)
    THEN Caught(run, 1)
    ELSE ValidationAfterPhase1(run,
            executePhase1Validation(this, run.workflow.siteData, run.workflow.designData))

ValidationStep2(this, run) ==
    LET w == run.workflow
        phase2Results ==
            executePhase2Validation(this, w.siteData, w.designData, w.phases.phase1)
    IN  [Stored(run, "phase2", phase2Results, 2, {"phase1"}) EXCEPT !.pc = "phase3"]

ValidationStep3(this, run) ==
    LET w == run.workflow
        previousResults == ResultsForPhase3(w.phases)
        phase3Results ==
            executePhase3Validation(this, w.siteData, w.designData, previousResults)
    IN  [Stored(run, "phase3", phase3Results, 3, DOMAIN previousResults)
            EXCEPT !.pc = "phase4"]

ValidationStep4(this, run) ==
    LET w == run.workflow
        previousResults == ResultsForPhase4(w.phases)
        phase4Results ==
            executePhase4Validation(this, w.siteData, w.designData, previousResults)
    IN  IF \/ w.designData.hasSecondUnit /\ ~KnownZone(this, w.siteData.zone)
           \/ Len(w.designData.accessoryStructures) > 0
                /\ validateAccessoryStructuresThrows(w.designData)
        THEN Caught(run, 4)
        ELSE [Stored(run, "phase4", phase4Results, 4, DOMAIN previousResults)
                 EXCEPT !.pc = "phase5"]

ValidationStep5(this, run) ==
    LET w == run.workflow
        allPreviousResults == ResultsForPhase5(w.phases)
        phase5Results ==
            executePhase5Validation(this, w.siteData, w.designData, allPreviousResults)
    IN  [Stored(run, "phase5", phase5Results, 5, DOMAIN allPreviousResults)
            EXCEPT !.pc = "returned",
                   !.workflow.overallStatus = phase5Results.status,
                   !.workflow.finalReport = phase5Results.finalReport,
                   !.workflow.endTime = "set"]

\* ---- the actions ----
Runs == DOMAIN wf

\* A workflow method is synchronous: from its first phase call to its return no
\* other call runs.
NoOtherRunning(r) == \A q \in Runs \ {r} : wf[q].pc \in {"phase1", "returned"}

At(r, kind, pc) == wf[r].kind = kind /\ wf[r].pc = pc /\ NoOtherRunning(r)

\* a phase call that also raises every minimum lot size of its engine's table
StepWriting(r, next) ==
    /\ wf' = [wf EXCEPT ![r] = next]
    /\ engine' = [engine EXCEPT ![wf[r].engine].zoneRequirements =
                     [z \in DOMAIN @ |-> [@[z] EXCEPT !.minLotSize = @ + 1]]]
    /\ UNCHANGED <<args, ret, app>>

Step(r, next) ==
    /\ wf' = [wf EXCEPT ![r] = next]
    /\ UNCHANGED <<engine, args, ret, app>>

PlanningPhase1(r) ==
    /\ At(r, "planning", "phase1")
    /\ Step(r, PlanningStep1(engine[wf[r].engine], wf[r]))

PlanningPhase2(r) ==
    /\ At(r, "planning", "phase2")
    /\ Step(r, PlanningStep2(engine[wf[r].engine], wf[r]))

PlanningPhase3(r) ==
    /\ At(r, "planning", "phase3")
    /\ Step(r, PlanningStep3(engine[wf[r].engine], wf[r]))

PlanningPhase4(r) ==
    /\ At(r, "planning", "phase4")
    /\ Step(r, PlanningStep4(engine[wf[r].engine], wf[r]))

PlanningPhase5(r) ==
    /\ At(r, "planning", "phase5")
    /\ Step(r, PlanningStep5(engine[wf[r].engine], wf[r]))

\* a first phase that writes the lot it saw into the engine's table
ValidationPhase1Learning(r) ==
    /\ At(r, "validation", "phase1")
    /\ wf' = [wf EXCEPT ![r] = ValidationStep1(engine[wf[r].engine], wf[r])]
    /\ engine' = [engine EXCEPT ![wf[r].engine].zoneRequirements =
                     [z \in DOMAIN @ |-> [@[z] EXCEPT !.minLotSize = @ + 1]]]
    /\ UNCHANGED <<args, ret, app>>

ValidationPhase1(r) ==
    /\ At(r, "validation", "phase1")
    /\ Step(r, ValidationStep1(engine[wf[r].engine], wf[r]))

ValidationPhase2(r) ==
    /\ At(r, "validation", "phase2")
    /\ Step(r, ValidationStep2(engine[wf[r].engine], wf[r]))

ValidationPhase3(r) ==
    /\ At(r, "validation", "phase3")
    /\ Step(r, ValidationStep3(engine[wf[r].engine], wf[r]))

ValidationPhase4(r) ==
    /\ At(r, "validation", "phase4")
    /\ Step(r, ValidationStep4(engine[wf[r].engine], wf[r]))

ValidationPhase5(r) ==
    /\ At(r, "validation", "phase5")
    /\ Step(r, ValidationStep5(engine[wf[r].engine], wf[r]))

Next ==
    \/ \E r \in Runs : PlanningPhase1(r)
    \/ \E r \in Runs : PlanningPhase2(r)
    \/ \E r \in Runs : PlanningPhase3(r)
    \/ \E r \in Runs : PlanningPhase4(r)
    \/ \E r \in Runs : PlanningPhase5(r)
    \/ \E r \in Runs : ValidationPhase1(r)
    \/ \E r \in Runs : ValidationPhase2(r)
    \/ \E r \in Runs : ValidationPhase3(r)
    \/ \E r \in Runs : ValidationPhase4(r)
    \/ \E r \in Runs : ValidationPhase5(r)

(***************************************************************************)
(* Inputs.  A compliant site and design, and variants of them: each        *)
(* variant overrides the fields of one rule; an input is the baseline with *)
(* at most MaxDeviations variants, of different rules, applied.            *)
(***************************************************************************)
MaxDeviations == 2

BaselineSite ==
    [address |-> "123 Main St",
     zone |-> "R-1",
     lotSize |-> 8000,
     lotType |-> "typical",
     isCornerLot |-> FALSE,
     creekAreas |-> 0,
     easements |-> 0,
     historicCategory |-> "",
     hasSecondUnit |-> FALSE]

BaselineDesign ==
    [submittedZone |-> "R-1",
     historicCompliance |-> "",
     buildingFootprint |-> 2000,
     encroachesCreek |-> FALSE,
     encroachesEasement |-> FALSE,
     buildingHeight |-> 25,
     floors |-> 2,
     secondFloorCeiling |-> 10,
     thirdFloorCeiling |-> Undef,
     frontSetback |-> 25,
     interiorSideSetback |-> 6,
     streetSideSetback |-> Undef,
     rearSetback |-> 25,
     totalFloorArea |-> 2500,
     daylightPlaneCompliant |-> Some(TRUE),
     porchArea |-> 100,
     entryProjection |-> 4,
     bayWindowProjection |-> 2,
     totalCoverage |-> 2400,
     hasSecondUnit |-> FALSE,
     parkingSpaces |-> 2,
     coveredParkingSpaces |-> 1,
     drivewaySurfaceWidth |-> 8,
     drivewayClearanceWidth |-> 10,
     hasGarage |-> TRUE,
     garageFrontSetback |-> 25,
     garageStreetSideSetback |-> Undef,
     backingDistance |-> 18,
     drivewayMaterial |-> "concrete",
     mainHouseArea |-> 2000,
     secondUnitArea |-> Undef,
     accessoryStructures |-> <<>>,
     hasPool |-> FALSE,
     poolSetback |-> Undef,
     poolSafetyBarriers |-> FALSE,
     totalCoverageWithFeatures |-> 2600,
     professionalStamps |-> {"Architect", "Structural Engineer"},
     submittedDocuments |-> {"site_plan", "floor_plans", "elevations", "structural_calcs"}]

Baseline == [site |-> BaselineSite, design |-> BaselineDesign]

\* base with the fields of upd replaced
Merge(base, upd) ==
    [f \in DOMAIN base |-> IF f \in DOMAIN upd THEN upd[f] ELSE base[f]]

Override(input, v) ==
    [site |-> Merge(input.site, v.site), design |-> Merge(input.design, v.design)]

OnSite(upd) == [site |-> upd, design |-> EmptyObject]

OnDesign(upd) == [site |-> EmptyObject, design |-> upd]

UnknownZone == "R-2"
InheritedZone == "toString"

\* each zone one square foot below its minimum lot size, the largest zone at its
\* minimum, a zone the table does not hold, and a zone that names an inherited
\* member of the table
LotVariants ==
    {[site |-> [zone |-> z, lotSize |-> PlanningZoneRequirements[z].minLotSize - 1],
      design |-> [submittedZone |-> z]] : z \in ZoneCodes}
    \cup {[site |-> [zone |-> "R-1(20000)", lotSize |-> 20000],
           design |-> [submittedZone |-> "R-1(20000)"]],
          [site |-> [zone |-> UnknownZone], design |-> [submittedZone |-> UnknownZone]],
          [site |-> [zone |-> InheritedZone], design |-> [submittedZone |-> InheritedZone]]}

SiteVariants ==
    <<{OnSite([lotType |-> "flag"])},
      {OnSite([hasSecondUnit |-> TRUE])},
      {[site |-> [isCornerLot |-> TRUE],
        design |-> [streetSideSetback |-> 16, garageFrontSetback |-> 75,
                    garageStreetSideSetback |-> 20]],
       [site |-> [isCornerLot |-> TRUE],
        design |-> [streetSideSetback |-> 15, garageFrontSetback |-> 75,
                    garageStreetSideSetback |-> 19]]},
      {[site |-> [historicCategory |-> "Category 1"],
        design |-> [historicCompliance |-> c]] : c \in {"approved", "pending"}},
      {[site |-> [creekAreas |-> 500], design |-> [encroachesCreek |-> TRUE]],
       [site |-> [creekAreas |-> 30000, easements |-> 30000], design |-> EmptyObject]}>>

Phase1And2Variants ==
    <<{OnDesign([submittedZone |-> "R-1(7000)"])},
      {OnDesign([buildingHeight |-> h]) : h \in {30, 31}},
      {OnDesign([secondFloorCeiling |-> 18])},
      {OnDesign([frontSetback |-> 19]),
       OnDesign([frontSetback |-> 19, rearSetback |-> 19])},
      {OnDesign([totalFloorArea |-> a]) : a \in {3150, 3151}},
      {OnDesign([daylightPlaneCompliant |-> Some(FALSE)])},
      {OnDesign([porchArea |-> 201])},
      {OnDesign([totalCoverage |-> c]) : c \in {3200, 3201}}>>

Phase3Variants ==
    <<{OnDesign([parkingSpaces |-> 1])},
      {OnDesign([drivewaySurfaceWidth |-> 7])},
      {OnDesign([hasGarage |-> FALSE]), OnDesign([garageFrontSetback |-> 19])},
      {OnDesign([backingDistance |-> 17])},
      {OnDesign([drivewayMaterial |-> m]) : m \in {"gravel", "asphalt"}}>>

Phase4And5Variants ==
    <<{OnDesign([hasSecondUnit |-> TRUE, parkingSpaces |-> 4, coveredParkingSpaces |-> 2,
                 secondUnitArea |-> a]) : a \in {640, 641}},
      {OnDesign([accessoryStructures |-> <<[height |-> 15, setback |-> 5]>>]),
       OnDesign([accessoryStructures |-> <<NullEntry>>]),
       OnDesign([accessoryStructures |-> <<[height |-> 16, setback |-> 4],
                                           [height |-> 15, setback |-> 4]>>])},
      {OnDesign([hasPool |-> TRUE, poolSetback |-> 5, poolSafetyBarriers |-> TRUE]),
       OnDesign([hasPool |-> TRUE, poolSetback |-> 5, poolSafetyBarriers |-> FALSE])},
      {OnDesign([totalCoverageWithFeatures |-> c]) : c \in {3201, Undef}},
      {OnDesign([professionalStamps |-> {"Architect"}])},
      {OnDesign([submittedDocuments |-> {"site_plan", "floor_plans"}])}>>

Variants ==
    <<LotVariants>> \o SiteVariants \o Phase1And2Variants \o Phase3Variants
    \o Phase4And5Variants

\* the inputs reached from `input` by applying at most `budget` variants of the
\* rules i, i+1, ...
RECURSIVE InputsFrom(_, _, _)
InputsFrom(input, i, budget) ==
    IF i > Len(Variants) \/ budget = 0 THEN {input}
    ELSE InputsFrom(input, i + 1, budget)
         \cup UNION {InputsFrom(Override(input, v), i + 1, budget - 1) : v \in Variants[i]}

\* a design that misses many requirements at once, none of them an absolute
\* stopper, and the same design one foot too high
CrowdedDesign ==
    OnDesign([porchArea |-> 201, parkingSpaces |-> 1, drivewaySurfaceWidth |-> 7,
              backingDistance |-> 17, totalCoverageWithFeatures |-> 3201,
              professionalStamps |-> {"Architect"},
              submittedDocuments |-> {"site_plan", "floor_plans"}])

CrowdedInputs ==
    {Override(Baseline, CrowdedDesign),
     Override(Override(Baseline, CrowdedDesign), OnDesign([buildingHeight |-> 31]))}

Inputs == InputsFrom(Baseline, 1, MaxDeviations) \cup CrowdedInputs

(***************************************************************************)
(* The specification of the two workflow methods: a planning run and a     *)
(* validation run on the same site.                                        *)
(***************************************************************************)
\* one planning engine and two validation engines
Engines ==
    ("PE" :> PlanningEngine) @@ ("VE" :> ValidationEngine) @@ ("VE2" :> ValidationEngine)

NoArgs == EmptyObject

\* no web application around the engines
NoApp == EmptyObject

Init ==
    /\ engine = Engines
    /\ \E input \in Inputs :
          wf = ("p" :> PlanningRun("PE", input.site))
               @@ ("v" :> ValidationRun("VE", input.site, input.design))
    /\ args = NoArgs
    /\ ret = EmptyObject
    /\ app = NoApp

Spec == Init /\ [][Next]_vars

(***************************************************************************)
(* Direct calls of the phase methods.  The phase methods are public: a     *)
(* caller may hand executePhase2..4 a site the workflow would have stopped *)
(* on.  args holds the arguments of the calls, ret the value each method   *)
(* returned.                                                               *)
(***************************************************************************)
Called(method) == method \in DOMAIN ret

Return(method, value) ==
    /\ ~Called(method)
    /\ ret' = ret @@ (method :> value)
    /\ UNCHANGED <<engine, wf, args, app>>

CallExecutePhase2 ==
    Return("executePhase2",
           executePhase2(engine["PE"], args.siteData, args.phase1Results))

CallExecutePhase2Validation ==
    Return("executePhase2Validation",
           executePhase2Validation(engine["VE"], args.siteData, args.designData,
                                   args.phase1Results))

CallExecutePhase3 ==
    Return("executePhase3", executePhase3(engine["PE"], args.siteData, EmptyObject))

CallExecutePhase3Validation ==
    Return("executePhase3Validation",
           executePhase3Validation(engine["VE"], args.siteData, args.designData,
                                   EmptyObject))

CallExecutePhase4 ==
    Return("executePhase4", executePhase4(engine["PE"], args.siteData, EmptyObject))

CallExecutePhase4Validation ==
    Return("executePhase4Validation",
           executePhase4Validation(engine["VE"], args.siteData, args.designData,
                                   EmptyObject))

\* the arguments of a direct call: the baseline with some fields replaced, and
\* the phase 1 results reduced to what phase 2 reads of them
Arguments(site, design, isSubStandard) ==
    [siteData |-> Merge(BaselineSite, site),
     designData |-> Merge(BaselineDesign, design),
     phase1Results |-> [nextPhaseInputs |-> [isSubStandard |-> isSubStandard]]]

InitCalls(calls) ==
    /\ engine = Engines
    /\ wf = EmptyObject
    /\ args \in calls
    /\ ret = EmptyObject
    /\ app = NoApp

\* ---- phase 2 of both engines on lots of every size class ----
LotStep == 750

MaxLotSteps == 28

FARLotSizes ==
    {k * LotStep : k \in 1..MaxLotSteps}
    \cup {4000, 4999, 5000, 5001, 8000, 17499, 17500, 17501, 20000}

\* whole square feet around the floor area limit of a lot, and no floor area
FloorAreasAround(lotSize) ==
    LET limit == calculateFARParameters([lotSize |-> lotSize]).maxFloorArea \div 100
    IN  {limit - 1, limit, limit + 1, Undef}

EnvelopeCalls ==
    UNION {{Arguments([lotSize |-> l], [totalFloorArea |-> a], s) :
                a \in FloorAreasAround(l), s \in BOOLEAN} : l \in FARLotSizes}

InitEnvelope == InitCalls(EnvelopeCalls)

NextEnvelope == CallExecutePhase2 \/ CallExecutePhase2Validation

SpecEnvelope == InitEnvelope /\ [][NextEnvelope]_vars

\* ---- phase 1 of both engines on lots around the substandard thresholds and
\* ---- the minimum of each zone, and phase 2 on what phase 1 returned ----
HeightLotSizes(zone) ==
    LET zoneReq == PlanningZoneRequirements[zone]
    IN  {zoneReq.subStandardTypical - 1, zoneReq.subStandardTypical,
         zoneReq.subStandardFlag - 1, zoneReq.subStandardFlag,
         zoneReq.minLotSize - 1, zoneReq.minLotSize}

BuildingHeights == {16, 17, 18, 30, 31}

HeightCalls ==
    UNION {{Arguments([zone |-> z, lotType |-> t, lotSize |-> l],
                      [submittedZone |-> z, buildingHeight |-> h], s) :
                l \in HeightLotSizes(z), t \in {"typical", "flag"},
                h \in BuildingHeights, s \in BOOLEAN} :
           z \in ZoneCodes}

InitHeight == InitCalls(HeightCalls)

CallDetermineSubStandardStatus ==
    Return("determineSubStandardStatus",
           determineSubStandardStatus(engine["PE"], args.siteData))

CallValidateSubStandardStatus ==
    Return("validateSubStandardStatus",
           validateSubStandardStatus(engine["VE"], args.siteData))

CallExecutePhase1 ==
    Return("executePhase1", executePhase1(engine["PE"], args.siteData))

CallExecutePhase1Validation ==
    Return("executePhase1Validation",
           executePhase1Validation(engine["VE"], args.siteData, args.designData))

CallExecutePhase2AfterPhase1 ==
    /\ Called("executePhase1")
    /\ Return("executePhase2AfterPhase1",
              executePhase2(engine["PE"], args.siteData, ret["executePhase1"]))

CallExecutePhase2ValidationAfterPhase1 ==
    /\ Called("executePhase1Validation")
    /\ Return("executePhase2ValidationAfterPhase1",
              executePhase2Validation(engine["VE"], args.siteData, args.designData,
                                      ret["executePhase1Validation"]))

NextHeight ==
    \/ CallDetermineSubStandardStatus
    \/ CallValidateSubStandardStatus
    \/ CallExecutePhase1
    \/ CallExecutePhase1Validation
    \/ CallExecutePhase2AfterPhase1
    \/ CallExecutePhase2ValidationAfterPhase1
    \/ CallExecutePhase2
    \/ CallExecutePhase2Validation

SpecHeight == InitHeight /\ [][NextHeight]_vars

\* ---- validation phase 2 on setbacks around their minimums ----
SetbackCalls ==
    {Arguments([isCornerLot |-> c],
               [frontSetback |-> f, interiorSideSetback |-> i,
                streetSideSetback |-> s, rearSetback |-> r], FALSE) :
        c \in BOOLEAN, f \in {Undef, 19, 20}, i \in {Undef, 4, 5},
        s \in {Undef, 15, 16}, r \in {19, 20}}

InitSetbacks == InitCalls(SetbackCalls)

NextSetbacks == CallExecutePhase2Validation

SpecSetbacks == InitSetbacks /\ [][NextSetbacks]_vars

\* ---- validation phase 1 on designs flagged as encroaching ----
EnvironmentCalls ==
    {Arguments([creekAreas |-> c, easements |-> e],
               [buildingFootprint |-> b, encroachesCreek |-> fc,
                encroachesEasement |-> fe], FALSE) :
        c \in {Undef, 0, 500}, e \in {0, 300}, b \in {Undef, 0, 2000},
        fc \in BOOLEAN, fe \in BOOLEAN}

InitEnvironment == InitCalls(EnvironmentCalls)

NextEnvironment == CallExecutePhase1Validation

SpecEnvironment == InitEnvironment /\ [][NextEnvironment]_vars

\* ---- validation phase 4 on designs with and without each site feature ----
AccessoryLists ==
    {<<>>,
     <<[height |-> 15, setback |-> 5]>>,
     <<[height |-> 15, setback |-> 5], [height |-> 16, setback |-> 5]>>,
     <<[height |-> 16, setback |-> 4], [height |-> 15, setback |-> 4]>>}

SiteFeatureCalls ==
    {Arguments([lotSize |-> 8000],
               [hasSecondUnit |-> u, secondUnitArea |-> 600,
                accessoryStructures |-> a,
                hasPool |-> p, poolSetback |-> ps, poolSafetyBarriers |-> TRUE,
                totalCoverageWithFeatures |-> c], FALSE) :
        u \in BOOLEAN, a \in AccessoryLists, p \in BOOLEAN, ps \in {4, 5},
        c \in {Undef, 3199, 3200, 3201}}

InitSiteFeatures == InitCalls(SiteFeatureCalls)

NextSiteFeatures == CallExecutePhase4Validation

SpecSiteFeatures == InitSiteFeatures /\ [][NextSiteFeatures]_vars

\* ---- phase 3 of both engines on garages around the placement thresholds ----
GarageFrontSetbacks == {Undef, 0, 19, 20, 21, 74, 75, 76}

GarageStreetSideSetbacks == {Undef, 0, 15, 19, 20, 21}

ParkingCalls ==
    {Arguments([isCornerLot |-> c],
               [hasGarage |-> g, garageFrontSetback |-> f, garageStreetSideSetback |-> s],
               FALSE) :
         c \in BOOLEAN, g \in BOOLEAN,
         f \in GarageFrontSetbacks, s \in GarageStreetSideSetbacks}

InitParking == InitCalls(ParkingCalls)

NextParking == CallExecutePhase3 \/ CallExecutePhase3Validation

SpecParking == InitParking /\ [][NextParking]_vars

\* ---- phase 4 of both engines on lots around the second unit thresholds ----
LotTypes == {"typical", "flag", "irregular"}

SecondUnitLotSizes(zone) ==
    LET zoneReq == PlanningZoneRequirements[zone]
    IN  {zoneReq.minLotSize,
         zoneReq.secondUnitMinTypical - 1, zoneReq.secondUnitMinTypical,
         zoneReq.secondUnitMinFlag - 1, zoneReq.secondUnitMinFlag}

SecondUnitDesigns ==
    {[hasSecondUnit |-> FALSE]}
    \cup {[hasSecondUnit |-> TRUE, secondUnitArea |-> a, mainHouseArea |-> m] :
              a \in {Undef, 499, 500, 501, 640, 641},
              m \in {Undef, 1000, 1280, 2000}}

FeatureCalls ==
    UNION {{Arguments([zone |-> z, lotType |-> t, lotSize |-> l], d, FALSE) :
                t \in LotTypes, l \in SecondUnitLotSizes(z), d \in SecondUnitDesigns} :
           z \in ZoneCodes}

InitFeatures == InitCalls(FeatureCalls)

NextFeatures == CallExecutePhase4 \/ CallExecutePhase4Validation

SpecFeatures == InitFeatures /\ [][NextFeatures]_vars

\* ---- the same validation twice, among other runs ----
OtherInputs ==
    {Override(Baseline, OnDesign([buildingHeight |-> 31, parkingSpaces |-> 1]))}

MaxRepeatedDeviations == 1

InitTwice ==
    /\ engine = Engines
    /\ \E input \in InputsFrom(Baseline, 1, MaxRepeatedDeviations), e \in {"VE", "VE2"}, other \in OtherInputs :
          wf = ("p" :> PlanningRun("PE", input.site))
               @@ ("v" :> ValidationRun("VE", input.site, input.design))
               @@ ("w" :> ValidationRun(e, input.site, input.design))
               @@ ("o" :> ValidationRun("VE", other.site, other.design))
    /\ args = NoArgs
    /\ ret = EmptyObject
    /\ app = NoApp

SpecTwice == InitTwice /\ [][Next]_vars

\* ---- a planning and a validation run, every started call running to its return ----
FairInputs ==
    {Baseline}
    \cup {Override(Baseline, v) :
              v \in LotVariants \cup SiteVariants[1] \cup SiteVariants[4]
                    \cup Phase1And2Variants[1]}

InitFair ==
    /\ engine = Engines
    /\ \E input \in FairInputs :
          wf = ("p" :> PlanningRun("PE", input.site))
               @@ ("v" :> ValidationRun("VE", input.site, input.design))
    /\ args = NoArgs
    /\ ret = EmptyObject
    /\ app = NoApp

FairSpec == InitFair /\ [][Next]_vars /\ WF_vars(Next)

\* ---- a planning and a validation run on lots of every zone and lot type
\* ---- around the zone's minimum lot size and at the top of its range ----
ZoneLotSizes(z) ==
    {PlanningZoneRequirements[z].minLotSize - 1,
     PlanningZoneRequirements[z].minLotSize,
     PlanningZoneRequirements[z].maxLotSize}

ZoneInputs ==
    UNION {{Override(Baseline,
               [site |-> [zone |-> z, lotType |-> t, lotSize |-> l],
                design |-> [submittedZone |-> z, buildingHeight |-> h]]) :
               t \in LotTypes, h \in {17, 18, 30, 31}, l \in ZoneLotSizes(z)} :
           z \in ZoneCodes}

InitZones ==
    /\ engine = Engines
    /\ \E input \in ZoneInputs :
          wf = ("p" :> PlanningRun("PE", input.site))
               @@ ("v" :> ValidationRun("VE", input.site, input.design))
    /\ args = NoArgs
    /\ ret = EmptyObject
    /\ app = NoApp

SpecZones == InitZones /\ [][Next]_vars

\* ---- the phase methods called by hand: two planning runs on one engine and
\* ---- two validations on another, their phase calls in any order ----
InterleavedInputs ==
    {Baseline}
    \cup {Override(Baseline, v) :
              v \in LotVariants \cup SiteVariants[2] \cup SiteVariants[3]
                    \cup Phase1And2Variants[2] \cup Phase4And5Variants[2]}

InterleavedOther ==
    Override(Baseline,
        [site |-> [zone |-> "R-1(7000)", lotSize |-> 9000, lotType |-> "flag"],
         design |-> [submittedZone |-> "R-1(7000)", buildingHeight |-> 31,
                     parkingSpaces |-> 1]])

InitInterleaved ==
    /\ engine = Engines
    /\ \E input \in InterleavedInputs :
          wf = ("p" :> PlanningRun("PE", input.site))
               @@ ("q" :> PlanningRun("PE", InterleavedOther.site))
               @@ ("v" :> ValidationRun("VE", input.site, input.design))
               @@ ("o" :> ValidationRun("VE", InterleavedOther.site,
                                        InterleavedOther.design))
    /\ args = NoArgs
    /\ ret = EmptyObject
    /\ app = NoApp

\* the caller is about to make this phase call of run r
Due(r, kind, pc) == wf[r].kind = kind /\ wf[r].pc = pc

NextInterleaved ==
    \/ \E r \in Runs : Due(r, "planning", "phase1")
                          /\ Step(r, PlanningStep1(engine[wf[r].engine], wf[r]))
    \/ \E r \in Runs : Due(r, "planning", "phase2")
                          /\ Step(r, PlanningStep2(engine[wf[r].engine], wf[r]))
    \/ \E r \in Runs : Due(r, "planning", "phase3")
                          /\ Step(r, PlanningStep3(engine[wf[r].engine], wf[r]))
    \/ \E r \in Runs : Due(r, "planning", "phase4")
                          /\ Step(r, PlanningStep4(engine[wf[r].engine], wf[r]))
    \/ \E r \in Runs : Due(r, "planning", "phase5")
                          /\ Step(r, PlanningStep5(engine[wf[r].engine], wf[r]))
    \/ \E r \in Runs : Due(r, "validation", "phase1")
                          /\ Step(r, ValidationStep1(engine[wf[r].engine], wf[r]))
    \/ \E r \in Runs : Due(r, "validation", "phase2")
                          /\ Step(r, ValidationStep2(engine[wf[r].engine], wf[r]))
    \/ \E r \in Runs : Due(r, "validation", "phase3")
                          /\ Step(r, ValidationStep3(engine[wf[r].engine], wf[r]))
    \/ \E r \in Runs : Due(r, "validation", "phase4")
                          /\ Step(r, ValidationStep4(engine[wf[r].engine], wf[r]))
    \/ \E r \in Runs : Due(r, "validation", "phase5")
                          /\ Step(r, ValidationStep5(engine[wf[r].engine], wf[r]))

SpecInterleaved == InitInterleaved /\ [][NextInterleaved]_vars

(***************************************************************************)
(* Properties                                                              *)
(***************************************************************************)
IsPlanning(r) == wf[r].kind = "planning"

IsValidation(r) == wf[r].kind = "validation"

Returned(r) == wf[r].pc = "returned"

Ran(r, key) == key \in DOMAIN wf[r].workflow.phases

HasType(violations, t) == \E i \in 1..Len(violations) : violations[i].type = t

RuleCount(violations, id) ==
    Cardinality({i \in 1..Len(violations) : violations[i].ruleId = id})

\* the lot-size comparison of phase 1 is made and comes out false
BelowMinimum(r) ==
    LET site == wf[r].workflow.siteData
        this == engine[wf[r].engine]
    IN  /\ KnownZone(this, site.zone)
        /\ ~Ge(site.lotSize, Lookup(this, site.zone).minLotSize)

\* C1: the final status of a validation that ran its five phases follows from
\* the violations recorded in all five phases alone: rejected if any of them is
\* an absolute_stopper, conditional if there is a violation but no
\* absolute_stopper, approved if there is none.
C1_FinalStatus ==
    \A r \in Runs :
        (IsValidation(r) /\ Ran(r, "phase5")) =>
            LET ph == wf[r].workflow.phases
                all == ph.phase1.violations \o ph.phase2.violations
                       \o ph.phase3.violations \o ph.phase4.violations
                       \o ph.phase5.violations
                expected == IF HasType(all, "absolute_stopper") THEN "rejected"
                            ELSE IF Len(all) > 0 THEN "conditional"
                            ELSE "approved"
            IN  /\ ph.phase5.status = expected
                /\ wf[r].workflow.overallStatus = expected

\* a rejected validation whose only violations are one of phase 1 and one of phase 5
C1_Witness ==
    \E r \in Runs :
        /\ IsValidation(r) /\ Ran(r, "phase5")
        /\ wf[r].workflow.overallStatus = "rejected"
        /\ HasType(wf[r].workflow.phases.phase1.violations, "absolute_stopper")
        /\ Len(wf[r].workflow.phases.phase2.violations) = 0
        /\ Len(wf[r].workflow.phases.phase3.violations) = 0
        /\ Len(wf[r].workflow.phases.phase4.violations) = 0
        /\ Len(wf[r].workflow.phases.phase5.violations) = 1

StopStatus(kind) == IF kind = "planning" THEN "stopped" ELSE "critical_failure"

\* the phase calls a run has made are phases 1, 2, ... in order, each once and
\* each handed the results of all phases before it; the run has returned after
\* phase 1 exactly when phase 1 has the stop status, and otherwise goes on
\* through phase 5
C2_Shape ==
    \A r \in Runs :
        LET run == wf[r]
            n == Len(run.calls)
            phases == run.workflow.phases
            stops == n >= 1 /\ phases.phase1.status = StopStatus(run.kind)
        IN  /\ n <= 5
            /\ \A i \in 1..n :
                  /\ run.calls[i].phase = i
                  /\ run.calls[i].received = {PhaseKeys[j] : j \in 1..(i - 1)}
            /\ DOMAIN phases = {PhaseKeys[i] : i \in 1..n}
            /\ (n >= 1) => (stops <=> (run.pc = "returned" /\ n = 1))
            /\ (n >= 1 /\ ~stops) =>
                  run.pc = (IF n = 5 THEN "returned" ELSE PhaseKeys[n + 1])
            /\ (n = 0) => \/ run.pc = "phase1"
                          \/ run.pc = "returned" /\ run.workflow.overallStatus = "error"

C3_ValidationLotSizeStop ==
    \A r \in Runs :
        (IsValidation(r) /\ BelowMinimum(r) /\ wf[r].pc # "phase1") =>
            LET w == wf[r].workflow
                p1 == w.phases.phase1
            IN  /\ Returned(r)
                /\ DOMAIN w.phases = {"phase1"}
                /\ p1.status = "critical_failure"
                /\ Len(p1.validationChecks) = 1
                /\ Len(p1.violations) = 1
                /\ p1.violations[1].type = "absolute_stopper"
                /\ p1.violations[1].ruleId = "CP001"
                /\ p1.failed = 1
                /\ p1.passed = 0
                /\ w.overallStatus = "rejected"
                /\ w.stopReason = "Critical site validation failures"
                /\ w.finalReport = Null

\* a stopped validation of a design that breaks a further rule of phase 1
C3_Witness ==
    \E r \in Runs :
        /\ IsValidation(r) /\ BelowMinimum(r) /\ Returned(r)
        /\ wf[r].workflow.siteData.historicCategory # ""
        /\ wf[r].workflow.designData.historicCompliance = "pending"

\* C4: a planning run on a lot below the minimum lot size of its zone ends
\* phase 1 with status stopped, one task, one recommendation of type critical,
\* no constraints and empty nextPhaseInputs; the workflow is stopped and holds
\* phase 1 alone.  No planning phase stops for any other reason.
C4_PlanningLotSizeStop ==
    \A r \in Runs :
        IsPlanning(r) =>
            LET w == wf[r].workflow
            IN  /\ (BelowMinimum(r) /\ wf[r].pc # "phase1") =>
                      /\ Returned(r)
                      /\ DOMAIN w.phases = {"phase1"}
                      /\ w.phases.phase1.status = "stopped"
                      /\ Len(w.phases.phase1.tasks) = 1
                      /\ Len(w.phases.phase1.recommendations) = 1
                      /\ w.phases.phase1.recommendations[1].type = "critical"
                      /\ w.phases.phase1.constraints = <<>>
                      /\ w.phases.phase1.nextPhaseInputs = EmptyObject
                      /\ w.overallStatus = "stopped"
                /\ \A k \in DOMAIN w.phases :
                      w.phases[k].status = "stopped" => (k = "phase1" /\ BelowMinimum(r))
                /\ w.overallStatus = "stopped" => BelowMinimum(r)

\* a stopped planning run on a historic site, which would otherwise carry a
\* constraint
C4_Witness ==
    \E r \in Runs :
        /\ IsPlanning(r) /\ BelowMinimum(r) /\ Returned(r)
        /\ wf[r].workflow.siteData.historicCategory # ""
        /\ wf[r].workflow.overallStatus = "stopped"

SameInput(a, b) ==
    /\ wf[a].workflow.siteData = wf[b].workflow.siteData
    /\ wf[a].workflow.designData = wf[b].workflow.designData

FloorAreaLimit(lotSize) ==
    IF lotSize <= 5000 THEN 45 * lotSize
    ELSE IF lotSize >= 17500 THEN 600000
    ELSE 225000 + 30 * (lotSize - 5000)

FARCheck == ret["executePhase2Validation"].validationChecks[4]

\* C6: planning reports the floor area limit
\* min(0.45 * min(L, 5000) + 0.30 * max(L - 5000, 0), 6000) for every lot size L
\* (1800 for 4000, 3150 for 8000, 6000 for 20000); the FAR check of validation
\* computes the same limit and fails, with one absolute_stopper CP003, exactly
\* when the total floor area is greater than the limit.
C6_FloorAreaLimit ==
    LET lotSize == args.siteData.lotSize
        area == args.designData.totalFloorArea
        limit == FloorAreaLimit(lotSize)
    IN  /\ Called("executePhase2") =>
              LET reported == ret["executePhase2"].designParameters.maxFloorArea
              IN  /\ reported = limit
                  /\ lotSize = 4000 => reported = 1800 * 100
                  /\ lotSize = 8000 => reported = 3150 * 100
                  /\ lotSize = 20000 => reported = 6000 * 100
        /\ Called("executePhase2Validation") =>
              LET violations == ret["executePhase2Validation"].violations
              IN  /\ FARCheck.ruleId = "CP003"
                  /\ FARCheck.maxAllowed = limit
                  /\ area # Undef => (FARCheck.result = "FAIL" <=> area * 100 > limit)
                  /\ FARCheck.result \in {"PASS", "FAIL"}
                  /\ RuleCount(violations, "CP003")
                        = (IF FARCheck.result = "FAIL" THEN 1 ELSE 0)
                  /\ \A i \in 1..Len(violations) :
                        violations[i].ruleId = "CP003"
                            => violations[i].type = "absolute_stopper"
        /\ (Called("executePhase2") /\ Called("executePhase2Validation")) =>
              FARCheck.maxAllowed = ret["executePhase2"].designParameters.maxFloorArea

\* both engines have computed the capped limit of a 20000 square foot lot, and
\* the design exceeds it by one square foot
C6_Witness ==
    /\ Called("executePhase2") /\ Called("executePhase2Validation")
    /\ args.siteData.lotSize = 20000
    /\ args.designData.totalFloorArea = 6001
    /\ FARCheck.result = "FAIL"
    /\ ret["executePhase2"].designParameters.maxFloorArea = 600000

\* C7: in the table of every engine each of the five zones has
\* minLotSize < maxLotSize, subStandardTypical < subStandardFlag and
\* secondUnitMinTypical < secondUnitMinFlag, and the planning and the
\* validation table hold the same six numbers for every zone.
C7_ZoneTables ==
    /\ \A e \in DOMAIN engine :
          /\ Cardinality(DOMAIN engine[e].zoneRequirements) = 5
          /\ \A z \in DOMAIN engine[e].zoneRequirements :
                LET zoneReq == engine[e].zoneRequirements[z]
                IN  /\ DOMAIN zoneReq = {"minLotSize", "maxLotSize",
                                         "subStandardTypical", "subStandardFlag",
                                         "secondUnitMinTypical", "secondUnitMinFlag"}
                    /\ zoneReq.minLotSize < zoneReq.maxLotSize
                    /\ zoneReq.subStandardTypical < zoneReq.subStandardFlag
                    /\ zoneReq.secondUnitMinTypical < zoneReq.secondUnitMinFlag
    /\ \A e \in DOMAIN engine :
          engine[e].zoneRequirements = engine["PE"].zoneRequirements

\* a planning and a validation run have both read the row of the largest zone
\* and handed on the same six numbers
C7_Witness ==
    \E p \in Runs, v \in Runs :
        /\ IsPlanning(p) /\ IsValidation(v)
        /\ Ran(p, "phase1") /\ Ran(v, "phase1")
        /\ wf[p].workflow.siteData.zone = "R-1(20000)"
        /\ wf[v].workflow.siteData.zone = "R-1(20000)"
        /\ wf[p].workflow.phases.phase1.status = "completed"
        /\ wf[v].workflow.phases.phase1.status # "critical_failure"
        /\ wf[p].workflow.phases.phase1.nextPhaseInputs.zoneRequirements
              = wf[v].workflow.phases.phase1.nextPhaseInputs.zoneRequirements

\* the second unit threshold of the site in the table of engine e
SecondUnitThreshold(e) ==
    LET zoneReq == engine[e].zoneRequirements[args.siteData.zone]
    IN  IF args.siteData.lotType = "flag"
        THEN zoneReq.secondUnitMinFlag ELSE zoneReq.secondUnitMinTypical

SecondUnitAssessment == ret["executePhase4"].tasks[1]

\* the checks of validation phase 4 on a design with a second unit start with
\* the lot size check and the size check
SecondUnitLotCheck == ret["executePhase4Validation"].validationChecks[1]

SecondUnitSizeCheck == ret["executePhase4Validation"].validationChecks[2]

\* C8: planning phase 4 finds a second unit feasible exactly when the lot size
\* is at least secondUnitMinFlag of the zone on a flag lot and at least
\* secondUnitMinTypical on any other lot (R-1 typical: not at 8099, at 8100);
\* the lot size check of validation, a major_stopper CP008, passes for exactly
\* those sites.
C8_SecondUnitFeasibility ==
    LET site == args.siteData
        eligible == site.lotSize >= SecondUnitThreshold("PE")
    IN  /\ Called("executePhase4") =>
              /\ SecondUnitAssessment.status \in {"feasible", "not_feasible"}
              /\ SecondUnitAssessment.status = "feasible" <=> eligible
              /\ (site.zone = "R-1" /\ site.lotType = "typical" /\ site.lotSize = 8099)
                    => SecondUnitAssessment.status = "not_feasible"
              /\ (site.zone = "R-1" /\ site.lotType = "typical" /\ site.lotSize = 8100)
                    => SecondUnitAssessment.status = "feasible"
        /\ (Called("executePhase4Validation") /\ args.designData.hasSecondUnit) =>
              LET violations == ret["executePhase4Validation"].violations
              IN  /\ SecondUnitLotCheck.ruleId = "CP008"
                  /\ SecondUnitLotCheck.result \in {"PASS", "FAIL"}
                  /\ SecondUnitLotCheck.result = "PASS" <=> eligible
                  /\ RuleCount(violations, "CP008") = (IF eligible THEN 0 ELSE 1)
                  /\ \A i \in 1..Len(violations) :
                        violations[i].ruleId = "CP008"
                            => violations[i].type = "major_stopper"
        /\ (Called("executePhase4") /\ Called("executePhase4Validation")
            /\ args.designData.hasSecondUnit) =>
              (SecondUnitAssessment.status = "feasible"
                  <=> SecondUnitLotCheck.result = "PASS")

\* both engines have accepted a flag lot of exactly the flag threshold of its zone
C8_Witness ==
    /\ Called("executePhase4") /\ Called("executePhase4Validation")
    /\ args.designData.hasSecondUnit
    /\ args.siteData.lotType = "flag"
    /\ args.siteData.lotSize = SecondUnitThreshold("PE")
    /\ SecondUnitAssessment.status = "feasible"
    /\ SecondUnitLotCheck.result = "PASS"

\* min(640, 50% of the main house area) in hundredths of a square foot
SecondUnitSizeLimit(mainHouseArea) ==
    IF 50 * mainHouseArea < 640 * 100 THEN 50 * mainHouseArea ELSE 640 * 100

GarageCheck == ret["executePhase3Validation"].validationChecks[4]

GarageParameters == ret["executePhase3"].parkingParameters.garage

\* C10: the garage check is N/A without a garage; on a corner lot it passes
\* exactly when the garage front setback is at least 75 and its street side
\* setback at least 20; on any other lot exactly when the front setback is at
\* least 20, whatever the street side setback; a failure records one
\* design_stopper CP014; the thresholds are those planning phase 3 reports
\* for the site.
C10_GaragePlacement ==
    LET site == args.siteData
        design == args.designData
        front == design.garageFrontSetback
        streetSide == design.garageStreetSideSetback
        placed == IF site.isCornerLot
                  THEN front # Undef /\ front >= 75
                       /\ streetSide # Undef /\ streetSide >= 20
                  ELSE front # Undef /\ front >= 20
    IN  /\ Called("executePhase3Validation") =>
              LET violations == ret["executePhase3Validation"].violations
              IN  /\ GarageCheck.result
                        = (IF ~design.hasGarage THEN "N/A"
                           ELSE IF placed THEN "PASS" ELSE "FAIL")
                  /\ (site.isCornerLot /\ design.hasGarage
                      /\ front = 75 /\ streetSide = 15) => GarageCheck.result = "FAIL"
                  /\ RuleCount(violations, "CP014")
                        = (IF GarageCheck.result = "FAIL" THEN 1 ELSE 0)
                  /\ Len(violations) = RuleCount(violations, "CP014")
                  /\ \A i \in 1..Len(violations) :
                        violations[i].type = "design_stopper"
        /\ Called("executePhase3") =>
              /\ GarageParameters.frontSetback = (IF site.isCornerLot THEN 75 ELSE 20)
              /\ GarageParameters.streetSideSetback
                    = (IF site.isCornerLot THEN 20 ELSE Undef)
        /\ (Called("executePhase3") /\ Called("executePhase3Validation")
            /\ design.hasGarage) =>
              (GarageCheck.result = "PASS"
                  <=> /\ Ge(front, GarageParameters.frontSetback)
                      /\ \/ GarageParameters.streetSideSetback = Undef
                         \/ Ge(streetSide, GarageParameters.streetSideSetback))

\* a corner lot garage 75 feet from the front and 15 from the street side has
\* failed against the thresholds planning reported
C10_Witness ==
    /\ Called("executePhase3") /\ Called("executePhase3Validation")
    /\ args.siteData.isCornerLot
    /\ args.designData.hasGarage
    /\ args.designData.garageFrontSetback = 75
    /\ args.designData.garageStreetSideSetback = 15
    /\ GarageCheck.result = "FAIL"
    /\ GarageParameters.streetSideSetback = 20

\* ---- planning phase 4 and validation phase 2 on coverages around the cap ----
CoverageLotSizes == FARLotSizes \cup {6001, 7777, 10000, 12345}

\* whole square feet around 40% of a lot, and no coverage
CoveragesAround(lotSize) ==
    LET cap == (lotSize * 40) \div 100
    IN  {cap - 1, cap, cap + 1, Undef}

CoverageCalls ==
    UNION {{Arguments([lotSize |-> l], [totalCoverage |-> c], FALSE) :
                c \in CoveragesAround(l)} : l \in CoverageLotSizes}

InitCoverage == InitCalls(CoverageCalls)

NextCoverage == CallExecutePhase4 \/ CallExecutePhase2Validation

SpecCoverage == InitCoverage /\ [][NextCoverage]_vars

CoverageParameters == ret["executePhase4"].featureParameters.coverage

CoverageCheck == ret["executePhase2Validation"].validationChecks[7]

\* C11: planning reports totalMaxCoverage as 35% of the lot plus 5% of the
\* lot, which is 40% of the lot (4000 for 10000 square feet); the lot coverage
\* check of validation phase 2 uses the same value, passes exactly when the
\* total coverage is at most that value and records one design_stopper CP013
\* otherwise.
C11_CoverageCap ==
    LET lotSize == args.siteData.lotSize
        coverage == args.designData.totalCoverage
    IN  /\ Called("executePhase4") =>
              /\ CoverageParameters.maxCoverageArea = 35 * lotSize
              /\ CoverageParameters.additionalAllowanceArea = 5 * lotSize
              /\ CoverageParameters.totalMaxCoverage
                    = CoverageParameters.maxCoverageArea
                      + CoverageParameters.additionalAllowanceArea
              /\ CoverageParameters.totalMaxCoverage = 40 * lotSize
              /\ lotSize = 10000 => CoverageParameters.totalMaxCoverage = 4000 * 100
        /\ Called("executePhase2Validation") =>
              LET violations == ret["executePhase2Validation"].violations
              IN  /\ CoverageCheck.ruleId = "CP013"
                  /\ CoverageCheck.maxAllowed = 40 * lotSize
                  /\ CoverageCheck.result \in {"PASS", "FAIL"}
                  /\ coverage # Undef =>
                        (CoverageCheck.result = "PASS" <=> coverage * 100 <= 40 * lotSize)
                  /\ RuleCount(violations, "CP013")
                        = (IF CoverageCheck.result = "FAIL" THEN 1 ELSE 0)
                  /\ \A i \in 1..Len(violations) :
                        violations[i].ruleId = "CP013"
                            => violations[i].type = "design_stopper"
        /\ (Called("executePhase4") /\ Called("executePhase2Validation")) =>
              CoverageCheck.maxAllowed = CoverageParameters.totalMaxCoverage

\* both engines have computed 4000 for a 10000 square foot lot, and a coverage
\* of 4001 has failed
C11_Witness ==
    /\ Called("executePhase4") /\ Called("executePhase2Validation")
    /\ args.siteData.lotSize = 10000
    /\ args.designData.totalCoverage = 4001
    /\ CoverageParameters.totalMaxCoverage = 400000
    /\ CoverageCheck.result = "FAIL"
    /\ RuleCount(ret["executePhase2Validation"].violations, "CP013") = 1

FailedAmong(checks, indices) ==
    Cardinality({i \in indices : checks[i].result = "FAIL"})

NoViolationAtAll(r) ==
    \A k \in DOMAIN wf[r].workflow.phases : wf[r].workflow.phases[k].violations = <<>>

\* C12: the materials check of validation phase 3 fails exactly for a driveway
\* material outside concrete, asphalt and approved_pavers; its failure adds one
\* warning and nothing else: the violations, the failed counter and the status
\* of the phase follow from the five checks before it, and a validation with
\* no violation in any phase ends approved even though the materials check
\* failed.
C12_MaterialsWarning ==
    \A r \in Runs :
        (IsValidation(r) /\ Ran(r, "phase3")) =>
            LET p3 == wf[r].workflow.phases.phase3
                material == wf[r].workflow.designData.drivewayMaterial
                check == p3.validationChecks[6]
                failedBefore == FailedAmong(p3.validationChecks, 1..5)
                fails == material \notin {"concrete", "asphalt", "approved_pavers"}
            IN  /\ Len(p3.validationChecks) = 6
                /\ check.checkName = "Driveway Materials"
                /\ check.result = (IF fails THEN "FAIL" ELSE "PASS")
                /\ p3.warnings = (IF fails THEN <<[type |-> "materials"]>> ELSE <<>>)
                /\ Len(p3.violations) = failedBefore
                /\ \A i \in 1..Len(p3.violations) :
                      p3.violations[i].category
                          \in {"Parking", "Covered Parking", "Access",
                               "Garage Placement", "Vehicle Access"}
                /\ p3.failed = failedBefore
                /\ p3.passed = (5 - failedBefore) + (IF fails THEN 0 ELSE 1)
                /\ p3.status = (IF failedBefore > 0 THEN "violations_found" ELSE "passed")
                /\ (fails /\ Ran(r, "phase5") /\ NoViolationAtAll(r)) =>
                      /\ wf[r].workflow.overallStatus = "approved"
                      /\ wf[r].workflow.finalReport[1].overallStatus = "APPROVED"

\* a validation of a design whose only defect is a gravel driveway has
\* returned approved, with the one warning in phase 3
C12_Witness ==
    \E r \in Runs :
        /\ IsValidation(r) /\ Ran(r, "phase5")
        /\ wf[r].workflow.designData.drivewayMaterial = "gravel"
        /\ wf[r].workflow.phases.phase3.validationChecks[6].result = "FAIL"
        /\ Len(wf[r].workflow.phases.phase3.warnings) = 1
        /\ wf[r].workflow.phases.phase3.failed = 0
        /\ wf[r].workflow.phases.phase3.status = "passed"
        /\ wf[r].workflow.overallStatus = "approved"

(***************************************************************************)
(* C13: zones outside the table                                            *)
(***************************************************************************)
OutsideTable(r) == wf[r].workflow.siteData.zone \notin ZoneCodes

\* C13: a workflow run on a site whose zone is not one of the five zones of the
\* table ends in its error state, with no phase-1 result, no verdict and no
\* final report, in either engine.
C13_UnknownZoneFails ==
    \A r \in Runs :
        (OutsideTable(r) /\ Returned(r)) =>
            /\ wf[r].workflow.overallStatus = "error"
            /\ DOMAIN wf[r].workflow.phases = {}
            /\ wf[r].workflow.finalReport = Null

\* a validation of a site in a zone outside the table that returned a phase-1
\* result with the lot-size verdict CP001
C13_Verdict ==
    \E r \in Runs :
        /\ IsValidation(r) /\ OutsideTable(r) /\ Returned(r)
        /\ Ran(r, "phase1")
        /\ RuleCount(wf[r].workflow.phases.phase1.violations, "CP001") = 1
        /\ wf[r].workflow.overallStatus = "rejected"

(***************************************************************************)
(* C14: a phase that throws                                                *)
(***************************************************************************)
\* what the phases before phase 4 return for the run's input, computed anew
ValidationResultsBefore4(r) ==
    LET this == engine[wf[r].engine]
        w == wf[r].workflow
        phase1 == executePhase1Validation(this, w.siteData, w.designData)
        phase2 == executePhase2Validation(this, w.siteData, w.designData, phase1)
        phase3 == executePhase3Validation(this, w.siteData, w.designData,
                                          [phase1 |-> phase1, phase2 |-> phase2])
    IN  [phase1 |-> phase1, phase2 |-> phase2, phase3 |-> phase3]

\* C14: when phase k of a workflow run throws, the workflow function returns
\* the workflow with overallStatus error and the error message, finalReport
\* null and no endTime, and phases holds the results of exactly the phases
\* 1..k-1 that completed before.
C14_ErrorKeepsResults ==
    \A r \in Runs :
        LET run == wf[r]
            w == run.workflow
            k == run.thrown
        IN  /\ (w.overallStatus = "error") <=> (k > 0)
            /\ (k > 0) =>
                  /\ run.pc = "returned"
                  /\ w.error # undefined
                  /\ w.finalReport = Null
                  /\ w.endTime = undefined
                  /\ DOMAIN w.phases = {PhaseKeys[i] : i \in 1..(k - 1)}
                  /\ Len(run.calls) = k - 1
                  /\ (k = 4 /\ IsValidation(r)) => w.phases = ValidationResultsBefore4(r)

\* a validation whose phase 4 threw after phases 1 to 3 had recorded a
\* violation
C14_Witness ==
    \E r \in Runs :
        /\ IsValidation(r) /\ Returned(r)
        /\ wf[r].thrown = 4
        /\ wf[r].workflow.overallStatus = "error"
        /\ \E key \in DOMAIN wf[r].workflow.phases :
              Len(wf[r].workflow.phases[key].violations) > 0

(***************************************************************************)
(* C15: the engine and the inputs are read only                            *)
(***************************************************************************)
\* the step a run is at
StepOf(this, run) ==
    CASE run.kind = "planning" /\ run.pc = "phase1" -> PlanningStep1(this, run)
      [] run.kind = "planning" /\ run.pc = "phase2" -> PlanningStep2(this, run)
      [] run.kind = "planning" /\ run.pc = "phase3" -> PlanningStep3(this, run)
      [] run.kind = "planning" /\ run.pc = "phase4" -> PlanningStep4(this, run)
      [] run.kind = "planning" /\ run.pc = "phase5" -> PlanningStep5(this, run)
      [] run.kind = "validation" /\ run.pc = "phase1" -> ValidationStep1(this, run)
      [] run.kind = "validation" /\ run.pc = "phase2" -> ValidationStep2(this, run)
      [] run.kind = "validation" /\ run.pc = "phase3" -> ValidationStep3(this, run)
      [] run.kind = "validation" /\ run.pc = "phase4" -> ValidationStep4(this, run)
      [] run.kind = "validation" /\ run.pc = "phase5" -> ValidationStep5(this, run)

\* the run taken to its return with nothing in between, on a fresh engine
RECURSIVE RunAlone(_, _)
RunAlone(this, run) ==
    IF run.pc = "returned" THEN run ELSE RunAlone(this, StepOf(this, run))

\* the run as it was when its workflow began
Fresh(r) ==
    LET w == wf[r].workflow
    IN  IF IsPlanning(r) THEN PlanningRun(wf[r].engine, w.siteData)
        ELSE ValidationRun(wf[r].engine, w.siteData, w.designData)

InputsOf(w) ==
    IF "designData" \in DOMAIN w THEN <<w.siteData, w.designData>> ELSE <<w.siteData>>

C15_AsAlone ==
    /\ engine = Engines
    /\ \A r \in Runs :
          RunAlone(Engines[wf[r].engine], wf[r]) = RunAlone(Engines[wf[r].engine], Fresh(r))

MeetsMinimum(r) ==
    LET site == wf[r].workflow.siteData
    IN  /\ site.zone \in ZoneCodes
        /\ site.lotSize >= engine[wf[r].engine].zoneRequirements[site.zone].minLotSize

\* C16: a planning run on a site in a zone of the table with lotSize >=
\* minLotSize, whatever its lot type, corner, creek areas, easements, historic
\* category and second unit, never stops and never ends in the error state:
\* every phase it has run has status completed, and once returned it holds
\* phases 1 to 5, overallStatus completed and a final report.
C16_PlanningCompletes ==
    \A r \in Runs :
        (IsPlanning(r) /\ MeetsMinimum(r)) =>
            LET w == wf[r].workflow
            IN  /\ \A key \in DOMAIN w.phases : w.phases[key].status = "completed"
                /\ w.overallStatus \in {"in_progress", "completed"}
                /\ Returned(r) =>
                      /\ DOMAIN w.phases = {PhaseKeys[i] : i \in 1..5}
                      /\ w.overallStatus = "completed"
                      /\ w.finalReport # Null
                      /\ w.finalReport = Some(w.phases.phase5.finalReport)

\* a completed planning run on a lot whose creek areas and easements together
\* exceed the lot size
C16_Witness ==
    \E r \in Runs :
        LET site == wf[r].workflow.siteData
        IN  /\ IsPlanning(r) /\ MeetsMinimum(r) /\ Returned(r)
            /\ site.creekAreas + site.easements > site.lotSize
            /\ wf[r].workflow.phases.phase1.nextPhaseInputs.buildableArea < 0
            /\ wf[r].workflow.overallStatus = "completed"

(***************************************************************************)
(* C17: the shapes of a returned workflow                                  *)
(***************************************************************************)
FullRecord(r) ==
    LET w == wf[r].workflow
    IN  /\ DOMAIN w.phases = {PhaseKeys[i] : i \in 1..5}
        /\ w.finalReport # Null
        /\ w.endTime = "set"
        /\ w.stopReason = undefined
        /\ w.error = undefined
        /\ w.overallStatus \in (IF IsPlanning(r) THEN {"completed"}
                                ELSE {"approved", "conditional", "rejected"})

EarlyExitRecord(r) ==
    LET w == wf[r].workflow
    IN  /\ DOMAIN w.phases = {"phase1"}
        /\ w.stopReason # undefined
        /\ w.overallStatus = (IF IsPlanning(r) THEN "stopped" ELSE "rejected")
        /\ w.finalReport = Null
        /\ w.endTime = undefined
        /\ w.error = undefined

ErrorRecord(r) ==
    LET w == wf[r].workflow
    IN  /\ w.overallStatus = "error"
        /\ w.error # undefined
        /\ \E k \in 1..5 : DOMAIN w.phases = {PhaseKeys[i] : i \in 1..(k - 1)}
        /\ w.finalReport = Null
        /\ w.endTime = undefined
        /\ w.stopReason = undefined

\* C17 as stated: every returned workflow is the full record or the early-exit
\* record.
C17_TwoShapes ==
    \A r \in Runs : Returned(r) => (FullRecord(r) \/ EarlyExitRecord(r))

\* C17: every returned workflow is the full record (phase1..phase5, a final
\* report, an endTime), the early-exit record (phase1 alone, a stopReason,
\* overallStatus stopped or rejected) or the error record (overallStatus error,
\* the error message, the phases before the failing one); it never has
\* overallStatus in_progress, and its finalReport is non-null exactly when all
\* five phases are present.
C17_ThreeShapes ==
    \A r \in Runs :
        Returned(r) =>
            LET w == wf[r].workflow
            IN  /\ FullRecord(r) \/ EarlyExitRecord(r) \/ ErrorRecord(r)
                /\ w.overallStatus # "in_progress"
                /\ (w.finalReport # Null) <=> (DOMAIN w.phases = {PhaseKeys[i] : i \in 1..5})

\* a planning run returned with the full record while the validation of the
\* same site returned with the error record, three phases kept
C17_Witness ==
    \E r, q \in Runs :
        /\ IsPlanning(r) /\ Returned(r) /\ FullRecord(r)
        /\ IsValidation(q) /\ Returned(q) /\ ErrorRecord(q) /\ Ran(q, "phase3")

(***************************************************************************)
(* C18: the final validation report                                        *)
(***************************************************************************)
ReportOf(r) == wf[r].workflow.finalReport[1]

Reported(r) == IsValidation(r) /\ Returned(r) /\ wf[r].workflow.finalReport # Null

Buckets == {"critical", "major", "design", "process"}

Occurrences(violations, v) ==
    Cardinality({i \in 1..Len(violations) : violations[i] = v})

RECURSIVE SumOver(_, _)
SumOver(f, keys) ==
    IF keys = {} THEN 0
    ELSE LET key == CHOOSE k \in keys : TRUE
         IN  f[key] + SumOver(f, keys \ {key})

\* C18: in a final validation report every violation recorded in any of the
\* five phases is in exactly one of the buckets critical, major, design and
\* process, as often as it was recorded; violationSummary.total is the sum of
\* the four counts; estimatedResolution is 4-12 weeks with a critical
\* violation, else 2-6 weeks with more than five violations, else 1-3 weeks
\* with any violation, else Ready for submission, which it is exactly when the
\* overall status is APPROVED.
C18_Report ==
    \A r \in Runs :
        Reported(r) =>
            LET report == ReportOf(r)
                phases == wf[r].workflow.phases
                summary == report.violationSummary
                recorded == [key \in DOMAIN phases |-> Len(phases[key].violations)]
            IN  /\ \A key \in DOMAIN phases :
                      \A i \in 1..Len(phases[key].violations) :
                          LET v == phases[key].violations[i]
                              holding == {b \in Buckets :
                                             Occurrences(report.violations[b], v) > 0}
                          IN  /\ Cardinality(holding) = 1
                              /\ \A b \in holding :
                                    Occurrences(report.violations[b], v)
                                      = SumOver([k \in DOMAIN phases |->
                                                   Occurrences(phases[k].violations, v)],
                                                DOMAIN phases)
                /\ \A b \in Buckets : summary[b] = Len(report.violations[b])
                /\ summary.total = summary.critical + summary.major
                                     + summary.design + summary.process
                /\ summary.total = SumOver(recorded, DOMAIN phases)
                /\ report.estimatedResolution =
                      (IF summary.critical >= 1 THEN "4-12 weeks (major redesign)"
                       ELSE IF summary.total > 5 THEN "2-6 weeks (design revisions)"
                       ELSE IF summary.total > 0 THEN "1-3 weeks (minor corrections)"
                       ELSE "Ready for submission")
                /\ (report.estimatedResolution = "Ready for submission")
                      <=> (report.overallStatus = "APPROVED")
                /\ (report.overallStatus = "APPROVED")
                      <=> (wf[r].workflow.overallStatus = "approved")

\* a report of more than five violations, none critical, and so 2-6 weeks
C18_Witness ==
    \E r \in Runs :
        /\ Reported(r)
        /\ ReportOf(r).violationSummary.total > 5
        /\ ReportOf(r).violationSummary.critical = 0
        /\ ReportOf(r).violationSummary.process > 0
        /\ ReportOf(r).violationSummary.design > 0
        /\ ReportOf(r).estimatedResolution = "2-6 weeks (design revisions)"

(***************************************************************************)
(* C19: the status of a phase result                                       *)
(***************************************************************************)
\* C19: a validation result of phases 1 to 4 is a critical_failure, which
\* only phase 1 can be, or has status violations_found when its violations
\* list is non-empty and passed when it is empty, whatever its warnings; no
\* phase result of either engine has status in_progress.
C19_PhaseStatus ==
    \A r \in Runs :
        \A key \in DOMAIN wf[r].workflow.phases :
            LET results == wf[r].workflow.phases[key]
            IN  /\ results.status # "in_progress"
                /\ (results.status = "critical_failure") =>
                      (IsValidation(r) /\ key = "phase1")
                /\ (IsValidation(r) /\ key # "phase5"
                     /\ results.status # "critical_failure") =>
                      results.status = (IF results.violations # <<>>
                                        THEN "violations_found" ELSE "passed")

\* a validation with a phase that passed with a warning and another phase
\* that found violations
C19_Witness ==
    \E r \in Runs :
        /\ IsValidation(r) /\ Returned(r)
        /\ \E key \in DOMAIN wf[r].workflow.phases \ {"phase5"} :
              LET results == wf[r].workflow.phases[key]
              IN  /\ results.warnings # <<>> /\ results.violations = <<>>
                  /\ results.status = "passed"
        /\ \E key \in DOMAIN wf[r].workflow.phases \ {"phase5"} :
              wf[r].workflow.phases[key].status = "violations_found"

(***************************************************************************)
(* C20: substandard lots and the height limit                              *)
(***************************************************************************)
SubStandardThreshold(e) ==
    LET zoneReq == engine[e].zoneRequirements[args.siteData.zone]
    IN  IF args.siteData.lotType = "flag"
        THEN zoneReq.subStandardFlag ELSE zoneReq.subStandardTypical

HeightLimit(isSubStandard) == IF isSubStandard THEN 17 ELSE 30

\* the height check of a validation phase 2 result against the limit: it fails
\* exactly when the building is higher, and a failure is one absolute_stopper
\* CP002
HeightChecked(results, limit) ==
    LET check == results.validationChecks[1]
    IN  /\ check.ruleId = "CP002"
        /\ check.maxAllowed = limit
        /\ (check.result = "FAIL") <=> (args.designData.buildingHeight > limit)
        /\ (check.result = "PASS") <=> (args.designData.buildingHeight <= limit)
        /\ RuleCount(results.violations, "CP002")
              = (IF check.result = "FAIL" THEN 1 ELSE 0)
        /\ \A i \in 1..Len(results.violations) :
              results.violations[i].ruleId = "CP002"
                  => results.violations[i].type = "absolute_stopper"

\* C20: both engines classify a lot as substandard exactly when its lotSize is
\* below subStandardFlag of its zone for a flag lot and below
\* subStandardTypical for any other lot; phase 2 takes the classification
\* from the phase 1 results it is handed, with a height limit of 17 ft for
\* substandard and 30 ft otherwise, the same in planning and validation; the
\* validation height check fails, with one absolute_stopper CP002, exactly
\* when buildingHeight is greater than the limit.
C20_SubStandardHeight ==
    LET lotSize == args.siteData.lotSize
        handed == args.phase1Results.nextPhaseInputs.isSubStandard
    IN  /\ Called("determineSubStandardStatus") =>
              (ret["determineSubStandardStatus"].isSubStandard
                  <=> lotSize < SubStandardThreshold("PE"))
        /\ Called("validateSubStandardStatus") =>
              (ret["validateSubStandardStatus"].isSubStandard
                  <=> lotSize < SubStandardThreshold("VE"))
        /\ SubStandardThreshold("PE") = SubStandardThreshold("VE")
        /\ (Called("executePhase1") /\ ret["executePhase1"].status = "completed") =>
              (ret["executePhase1"].nextPhaseInputs.isSubStandard
                  <=> lotSize < SubStandardThreshold("PE"))
        /\ (Called("executePhase1Validation")
             /\ ret["executePhase1Validation"].status # "critical_failure") =>
              (ret["executePhase1Validation"].nextPhaseInputs.isSubStandard
                  <=> lotSize < SubStandardThreshold("VE"))
        /\ Called("executePhase2") =>
              ret["executePhase2"].designParameters.maxHeight = HeightLimit(handed)
        /\ Called("executePhase2Validation") =>
              HeightChecked(ret["executePhase2Validation"], HeightLimit(handed))
        /\ Called("executePhase2AfterPhase1") =>
              ret["executePhase2AfterPhase1"].designParameters.maxHeight
                = HeightLimit(HandedOverSubStandard(ret["executePhase1"]))
        /\ Called("executePhase2ValidationAfterPhase1") =>
              HeightChecked(ret["executePhase2ValidationAfterPhase1"],
                            HeightLimit(HandedOverSubStandard(ret["executePhase1Validation"])))

\* a flag lot below subStandardFlag and not below subStandardTypical, classed
\* substandard by both engines, and both phase 2 methods handed a substandard
\* classification: planning gives 17 ft and validation fails a building of
\* 18 ft
C20_Witness ==
    /\ args.siteData.lotType = "flag"
    /\ args.siteData.lotSize >= engine["PE"].zoneRequirements[args.siteData.zone].subStandardTypical
    /\ Called("determineSubStandardStatus") /\ Called("validateSubStandardStatus")
    /\ ret["determineSubStandardStatus"].isSubStandard
    /\ ret["validateSubStandardStatus"].isSubStandard
    /\ args.phase1Results.nextPhaseInputs.isSubStandard
    /\ Called("executePhase2") /\ Called("executePhase2Validation")
    /\ ret["executePhase2"].designParameters.maxHeight = 17
    /\ args.designData.buildingHeight = 18
    /\ ret["executePhase2Validation"].validationChecks[1].result = "FAIL"

\* every substandard threshold of the table lies below the zone's minimum lot
\* size, so a phase 1 stops on a substandard lot before classifying it: no
\* phase 1 result hands over a substandard classification
C20_NeverHandedOver ==
    /\ Called("executePhase1") => ~HandedOverSubStandard(ret["executePhase1"])
    /\ Called("executePhase1Validation")
          => ~HandedOverSubStandard(ret["executePhase1Validation"])

(***************************************************************************)
(* C21: the setback check                                                  *)
(***************************************************************************)
SetbackCheck == ret["executePhase2Validation"].validationChecks[3]

\* a dimension that is stated and below its minimum
Below(value, minimum) == value # Undef /\ value < minimum

\* C21: the setback check fails exactly when frontSetback < 20, or
\* interiorSideSetback < 5, or rearSetback < 20, or the lot is a corner lot and
\* streetSideSetback < 16, so that on another lot the street side value has no
\* effect; a failure is one absolute_stopper CP004 in phase 2 however many
\* dimensions are short, and phase 2 runs all seven of its checks.
C21_Setbacks ==
    Called("executePhase2Validation") =>
        LET results == ret["executePhase2Validation"]
            site == args.siteData
            design == args.designData
            short == \/ Below(design.frontSetback, 20)
                     \/ Below(design.interiorSideSetback, 5)
                     \/ Below(design.rearSetback, 20)
                     \/ site.isCornerLot /\ Below(design.streetSideSetback, 16)
        IN  /\ SetbackCheck.checkName = "Setback Compliance"
            /\ SetbackCheck.ruleId = "CP004"
            /\ (SetbackCheck.result = "FAIL") <=> short
            /\ (SetbackCheck.result = "PASS") <=> ~short
            /\ RuleCount(results.violations, "CP004") = (IF short THEN 1 ELSE 0)
            /\ \A k \in 1..Len(results.violations) :
                  results.violations[k].ruleId = "CP004"
                      => results.violations[k].type = "absolute_stopper"
            /\ Len(results.validationChecks) = 7
            /\ results.passed + results.failed = 7

\* a corner lot short on all four sides: four dimensions in the check, one
\* violation in the phase
C21_Witness ==
    /\ Called("executePhase2Validation")
    /\ args.siteData.isCornerLot
    /\ Len(SetbackCheck.violations) = 4
    /\ SetbackCheck.result = "FAIL"
    /\ RuleCount(ret["executePhase2Validation"].violations, "CP004") = 1
    /\ Len(ret["executePhase2Validation"].validationChecks) = 7

(***************************************************************************)
(* C22: the environmental check                                            *)
(***************************************************************************)
EnvironmentalCheck == ret["executePhase1Validation"].validationChecks[5]

\* C22: the environmental check of validation phase 1 fails, with one
\* major_stopper CP012, whenever the design's encroachesCreek or
\* encroachesEasement flag is set, and passes when neither is.
C22_FlagsFail ==
    Called("executePhase1Validation") =>
        LET results == ret["executePhase1Validation"]
            flagged == args.designData.encroachesCreek
                       \/ args.designData.encroachesEasement
        IN  /\ EnvironmentalCheck.checkName = "Environmental Exclusions"
            /\ (EnvironmentalCheck.result = "FAIL") <=> flagged
            /\ RuleCount(results.violations, "CP012") = (IF flagged THEN 1 ELSE 0)

\* what the check does: a flag counts only on a site that records the
\* matching area and for a design that states a building footprint
C22_GuardedFlags ==
    Called("executePhase1Validation") =>
        LET results == ret["executePhase1Validation"]
            site == args.siteData
            design == args.designData
            counted == /\ Truthy(design.buildingFootprint)
                       /\ \/ Truthy(site.creekAreas) /\ design.encroachesCreek
                          \/ Truthy(site.easements) /\ design.encroachesEasement
        IN  /\ (EnvironmentalCheck.result = "FAIL") <=> counted
            /\ RuleCount(results.violations, "CP012") = (IF counted THEN 1 ELSE 0)
            /\ \A k \in 1..Len(results.violations) :
                  results.violations[k].ruleId = "CP012"
                      => results.violations[k].type = "major_stopper"

\* a design flagged as encroaching on the creek that passes the check, the
\* site recording no creek area
C22_FlagIgnored ==
    /\ Called("executePhase1Validation")
    /\ args.designData.encroachesCreek
    /\ args.designData.buildingFootprint = 2000
    /\ args.siteData.creekAreas = 0
    /\ EnvironmentalCheck.result = "PASS"
    /\ RuleCount(ret["executePhase1Validation"].violations, "CP012") = 0

(***************************************************************************)
(* C23: the conditional checks of validation phase 4                       *)
(***************************************************************************)
CheckNames(results) ==
    [k \in 1..Len(results.validationChecks) |-> results.validationChecks[k].checkName]

CategoryCount(violations, category) ==
    Cardinality({k \in 1..Len(violations) : violations[k].category = category})

\* C23: validation phase 4 runs the two second unit checks exactly when the
\* design has a second unit, the accessory structure check exactly when the
\* accessory list is non-empty, recording one design_stopper however many
\* structures are higher than 15 ft or closer than 5 ft, the pool check exactly
\* when the design has a pool, and the total coverage check always and last;
\* with none of the features that is the only check, and it passes exactly
\* when the total coverage with features is at most 40% of the lot.
C23_ConditionalChecks ==
    Called("executePhase4Validation") =>
        LET results == ret["executePhase4Validation"]
            design == args.designData
            structures == design.accessoryStructures
            unfit == {k \in 1..Len(structures) :
                         structures[k].height > 15 \/ structures[k].setback < 5}
            last == results.validationChecks[Len(results.validationChecks)]
            covered == /\ design.totalCoverageWithFeatures # Undef
                       /\ design.totalCoverageWithFeatures * 100
                             <= 40 * args.siteData.lotSize
        IN  /\ CheckNames(results) =
                  (IF design.hasSecondUnit
                   THEN <<"Second Dwelling Unit Lot Size", "Second Unit Size">> ELSE <<>>)
                  \o (IF structures # <<>> THEN <<"Accessory Structures">> ELSE <<>>)
                  \o (IF design.hasPool THEN <<"Pool Safety">> ELSE <<>>)
                  \o <<"Total Coverage With Features">>
            /\ CategoryCount(results.violations, "Accessory Structures")
                  = (IF unfit # {} THEN 1 ELSE 0)
            /\ \A k \in 1..Len(results.violations) :
                  results.violations[k].category \in {"Accessory Structures", "Total Coverage"}
                      => results.violations[k].type = "design_stopper"
            /\ (last.result = "PASS") <=> covered
            /\ CategoryCount(results.violations, "Total Coverage")
                  = (IF covered THEN 0 ELSE 1)
            /\ (~design.hasSecondUnit /\ structures = <<>> /\ ~design.hasPool) =>
                  /\ Len(results.validationChecks) = 1
                  /\ (results.status = "passed") <=> covered

\* a design with two unfit accessory structures and nothing else: two checks,
\* one violation
C23_Witness ==
    /\ Called("executePhase4Validation")
    /\ ~args.designData.hasSecondUnit /\ ~args.designData.hasPool
    /\ Len(args.designData.accessoryStructures) = 2
    /\ args.designData.accessoryStructures[1].height = 16
    /\ args.designData.accessoryStructures[2].setback = 4
    /\ args.designData.totalCoverageWithFeatures = 3200
    /\ Len(ret["executePhase4Validation"].validationChecks) = 2
    /\ Len(ret["executePhase4Validation"].violations) = 1

\* a design with none of the features: the one check, passed at exactly 40%
C23_OneCheck ==
    /\ Called("executePhase4Validation")
    /\ ~args.designData.hasSecondUnit /\ ~args.designData.hasPool
    /\ args.designData.accessoryStructures = <<>>
    /\ args.designData.totalCoverageWithFeatures = 3200
    /\ Len(ret["executePhase4Validation"].validationChecks) = 1
    /\ ret["executePhase4Validation"].status = "passed"

(***************************************************************************)
(* C24: the per-phase status map of the final validation report            *)
(***************************************************************************)
UpperCase(status) ==
    CASE status = "approved" -> "APPROVED"
      [] status = "conditional" -> "CONDITIONAL"
      [] status = "rejected" -> "REJECTED"
      [] OTHER -> status

\* C24: the status map of the final validation report holds for each of the
\* five phases the status of that phase's result in the returned workflow;
\* phaseResults.phase5 is approved, conditional or rejected, equal to
\* workflow.phases.phase5.status, and the report's overallStatus is that
\* status in upper case.
C24_StatusMap ==
    \A r \in Runs :
        Reported(r) =>
            LET report == ReportOf(r)
                phases == wf[r].workflow.phases
            IN  /\ \A key \in DOMAIN phases :
                      report.phaseResults[key] = phases[key].status
                /\ report.phaseResults.phase5 \in {"approved", "conditional", "rejected"}
                /\ report.overallStatus = UpperCase(phases.phase5.status)

\* what the report holds: the statuses of phases 1 to 4 as returned, the
\* overall status in upper case, and for phase 5 the status its result had
\* when the report was made
C24_ReportBeforeStatus ==
    \A r \in Runs :
        Reported(r) =>
            LET report == ReportOf(r)
                phases == wf[r].workflow.phases
            IN  /\ \A key \in DOMAIN phases \ {"phase5"} :
                      report.phaseResults[key] = phases[key].status
                /\ report.phaseResults.phase5 = "in_progress"
                /\ phases.phase5.status \in {"approved", "conditional", "rejected"}
                /\ report.overallStatus = UpperCase(phases.phase5.status)

\* an approved validation whose report gives phase 5 as in_progress
C24_InProgress ==
    \E r \in Runs :
        /\ Reported(r)
        /\ wf[r].workflow.phases.phase5.status = "approved"
        /\ ReportOf(r).overallStatus = "APPROVED"
        /\ ReportOf(r).phaseResults.phase5 = "in_progress"

(***************************************************************************)
(* C25: no lot that passes the lot-size check is substandard               *)
(***************************************************************************)
PastLotSizeCheck(r) ==
    /\ Ran(r, "phase1")
    /\ wf[r].workflow.phases.phase1.status # StopStatus(wf[r].kind)

NoHeightRestriction(entries) ==
    \A k \in 1..Len(entries) : entries[k].type # "height_restriction"

\* C25: in a workflow run of either engine that gets past the lot-size check
\* of phase 1, whatever the zone and the lot type, phase 1 hands over
\* isSubStandard false and produces no height restriction constraint or
\* warning, and phase 2 uses the height limit of 30 ft.
C25_NeverSubStandard ==
    \A r \in Runs :
        PastLotSizeCheck(r) =>
            LET phases == wf[r].workflow.phases
                phase1 == phases.phase1
            IN  /\ MeetsMinimum(r)
                /\ phase1.nextPhaseInputs.isSubStandard = FALSE
                /\ IsPlanning(r) =>
                      /\ phase1.tasks[2].isSubStandard = FALSE
                      /\ NoHeightRestriction(phase1.constraints)
                      /\ Ran(r, "phase2") => phases.phase2.designParameters.maxHeight = 30
                /\ IsValidation(r) =>
                      /\ phase1.validationChecks[2].isSubStandard = FALSE
                      /\ NoHeightRestriction(phase1.warnings)
                      /\ Ran(r, "phase2") =>
                            /\ phases.phase2.validationChecks[1].maxAllowed = 30
                            /\ phases.phase2.validationChecks[1].isSubStandard = FALSE

\* a flag lot of exactly the minimum size of its zone, past phase 2 in both
\* engines, with a building of 18 ft that passes the height check
C25_Witness ==
    /\ \A r \in {"p", "v"} :
          /\ PastLotSizeCheck(r) /\ Ran(r, "phase2")
          /\ wf[r].workflow.siteData.lotType = "flag"
          /\ wf[r].workflow.siteData.zone = "R-1(10000)"
          /\ wf[r].workflow.siteData.lotSize = 10000
    /\ wf["v"].workflow.designData.buildingHeight = 18
    /\ wf["v"].workflow.phases.phase2.validationChecks[1].result = "PASS"

(***************************************************************************)
(* C26: what rejects a validation that ran all five phases                 *)
(***************************************************************************)
FivePhases(r) == IsValidation(r) /\ Returned(r) /\ Ran(r, "phase5")

CheckFailed(results, name) ==
    \E k \in 1..Len(results.validationChecks) :
        /\ results.validationChecks[k].checkName = name
        /\ results.validationChecks[k].result = "FAIL"

CriticalCheckFailed(r) ==
    LET phases == wf[r].workflow.phases
    IN  \/ CheckFailed(phases.phase1, "Zone District Verification")
        \/ CheckFailed(phases.phase2, "Building Height Compliance")
        \/ CheckFailed(phases.phase2, "Setback Compliance")
        \/ CheckFailed(phases.phase2, "Floor Area Ratio (FAR) Validation")

\* C26: a validation workflow that ran all five phases ends rejected exactly
\* when the zone, building height, setback or FAR check failed, whatever
\* phases 3, 4 and 5 found, and the critical path check of phase 5 has
\* result FAIL exactly when the final status is rejected.
C26_Rejection ==
    \A r \in Runs :
        FivePhases(r) =>
            LET phase5 == wf[r].workflow.phases.phase5
            IN  /\ (wf[r].workflow.overallStatus = "rejected") <=> CriticalCheckFailed(r)
                /\ wf[r].workflow.overallStatus = phase5.status
                /\ phase5.validationChecks[2].checkName = "Critical Path Validation"
                /\ (phase5.validationChecks[2].result = "FAIL")
                      <=> (wf[r].workflow.overallStatus = "rejected")

\* a run with violations in phases 3, 4 and 5 and none of the four checks
\* failed: it ends conditional and its critical path check passes
C26_Witness ==
    /\ FivePhases("v")
    /\ ~CriticalCheckFailed("v")
    /\ \A key \in {"phase3", "phase4", "phase5"} :
          Len(wf["v"].workflow.phases[key].violations) > 0
    /\ wf["v"].workflow.overallStatus = "conditional"
    /\ wf["v"].workflow.phases.phase5.validationChecks[2].result = "PASS"

\* a run rejected for its floor area alone
C26_Rejected ==
    /\ FivePhases("v")
    /\ CheckFailed(wf["v"].workflow.phases.phase2, "Floor Area Ratio (FAR) Validation")
    /\ Len(wf["v"].workflow.phases.phase2.violations) = 1
    /\ wf["v"].workflow.overallStatus = "rejected"

(***************************************************************************)
(* C27: the counters of a validation phase result                          *)
(***************************************************************************)
\* the checks no counter takes: the assessment of phase 1, the first two
\* checks of phase 5 and a failed driveway materials check
Uncounted(check) ==
    \/ check.checkName \in {"Substandard Lot Assessment",
                             "Comprehensive Rule Validation",
                             "Critical Path Validation"}
    \/ check.checkName = "Driveway Materials" /\ check.result = "FAIL"

CountedChecks(results, failing) ==
    Cardinality({k \in 1..Len(results.validationChecks) :
                    /\ ~Uncounted(results.validationChecks[k])
                    /\ (results.validationChecks[k].result = "FAIL") = failing})

\* C27: in every phase result of a validation run, failed is the number of
\* violations and of counted checks with result FAIL, passed is the number of
\* the other counted checks (an N/A garage check among them), and so
\* passed + failed never exceeds the number of validationChecks; the
\* substandard assessment, a driveway materials failure and the first two
\* checks of phase 5 are in neither counter.
C27_Counters ==
    \A r \in Runs : \A key \in DOMAIN wf[r].workflow.phases :
        IsValidation(r) =>
            LET results == wf[r].workflow.phases[key]
            IN  /\ results.failed = Len(results.violations)
                /\ results.failed = CountedChecks(results, TRUE)
                /\ results.passed = CountedChecks(results, FALSE)
                /\ results.passed + results.failed <= Len(results.validationChecks)

\* a run whose phase 3 has an N/A garage check and a failed driveway materials
\* check: five of its six checks are counted, and phase 5 counts two of four
C27_Witness ==
    /\ FivePhases("v")
    /\ LET phase3 == wf["v"].workflow.phases.phase3
           phase5 == wf["v"].workflow.phases.phase5
       IN  /\ phase3.validationChecks[4].result = "N/A"
           /\ CheckFailed(phase3, "Driveway Materials")
           /\ phase3.passed + phase3.failed = 5
           /\ Len(phase3.validationChecks) = 6
           /\ phase5.passed + phase5.failed = 2
           /\ Len(phase5.validationChecks) = 4
    /\ wf["v"].workflow.phases.phase1.validationChecks[2].result = "INFO"
    /\ wf["v"].workflow.phases.phase1.passed + wf["v"].workflow.phases.phase1.failed = 4

(***************************************************************************)
(* The web application (PlanningValidationApp).  app holds the fields      *)
(* currentMode and currentWorkflow of the application object, the calls of *)
(* its two asynchronous workflow methods, the timers those calls wait on   *)
(* and the figures of the validation report generated last.  Every wait is *)
(* delay(500), so the timers run out in the order they were set.  The page *)
(* (progress bars, result lists, buttons) is not modelled; a form can be   *)
(* submitted while its mode is the one shown.  The zone field is a select  *)
(* of the zone districts.                                                  *)
(***************************************************************************)
MaxSubmissions == 2

\* value || fallback on a number field: 0 (an empty field) and undefined are falsy
OrElse(value, fallback) == IF Truthy(value) THEN value ELSE fallback

\* getFormData: the fields of a form, numbers parsed (an empty number is 0),
\* an unchecked box absent (FALSE here)
FilledForm ==
    [address |-> "123 Main St",
     zone |-> "R-1",
     lotSize |-> 8000,
     lotType |-> "",
     isCornerLot |-> FALSE,
     creekAreas |-> 0,
     easements |-> 0,
     historicCategory |-> "",
     hasSecondUnit |-> FALSE,
     buildingHeight |-> 25,
     totalFloorArea |-> 2500,
     floors |-> 2,
     totalCoverage |-> 2400,
     frontSetback |-> 25,
     interiorSideSetback |-> 6,
     streetSideSetback |-> 0,
     rearSetback |-> 25,
     parkingSpaces |-> 2,
     coveredParkingSpaces |-> 1,
     drivewaySurfaceWidth |-> 0,
     drivewayClearanceWidth |-> 0,
     backingDistance |-> 0,
     hasPool |-> FALSE,
     hasGarage |-> FALSE,
     daylightPlaneCompliant |-> TRUE]

validatePlanningInput(data) ==
    /\ data.address # ""
    /\ data.zone # ""
    /\ Truthy(data.lotSize) /\ ~Lt(data.lotSize, 1000)

validateValidationInput(data) ==
    /\ data.address # ""
    /\ data.zone # ""
    /\ Truthy(data.lotSize) /\ ~Lt(data.lotSize, 1000)
    /\ Truthy(data.buildingHeight) /\ ~Le(data.buildingHeight, 0)
    /\ Truthy(data.totalFloorArea) /\ ~Le(data.totalFloorArea, 0)

formatSiteDataForPlanning(formData) ==
    [address |-> formData.address,
     zone |-> formData.zone,
     lotSize |-> formData.lotSize,
     lotType |-> IF formData.lotType = "" THEN "typical" ELSE formData.lotType,
     isCornerLot |-> formData.isCornerLot,
     creekAreas |-> OrElse(formData.creekAreas, 0),
     easements |-> OrElse(formData.easements, 0),
     historicCategory |-> formData.historicCategory,
     hasSecondUnit |-> formData.hasSecondUnit]

\* a design with the Architect stamp and every required stamp and document
formatDataForValidationComplete(formData) ==
    [siteData |->
        [address |-> formData.address,
         zone |-> formData.zone,
         lotSize |-> formData.lotSize,
         lotType |-> IF formData.lotType = "" THEN "typical" ELSE formData.lotType,
         isCornerLot |-> formData.isCornerLot,
         creekAreas |-> OrElse(formData.creekAreas, 0),
         easements |-> OrElse(formData.easements, 0),
         historicCategory |-> formData.historicCategory,
         hasSecondUnit |-> FALSE],
     designData |->
        [submittedZone |-> formData.zone,
         historicCompliance |-> "",
         buildingFootprint |-> Undef,
         encroachesCreek |-> FALSE,
         encroachesEasement |-> FALSE,
         buildingHeight |-> formData.buildingHeight,
         floors |-> OrElse(formData.floors, 1),
         secondFloorCeiling |-> Undef,
         thirdFloorCeiling |-> Undef,
         frontSetback |-> formData.frontSetback,
         interiorSideSetback |-> formData.interiorSideSetback,
         streetSideSetback |-> OrElse(formData.streetSideSetback, 0),
         rearSetback |-> formData.rearSetback,
         totalFloorArea |-> formData.totalFloorArea,
         daylightPlaneCompliant |-> Some(formData.daylightPlaneCompliant),
         porchArea |-> Undef,
         entryProjection |-> Undef,
         bayWindowProjection |-> Undef,
         totalCoverage |-> formData.totalCoverage,
         hasSecondUnit |-> formData.hasSecondUnit,
         parkingSpaces |-> formData.parkingSpaces,
         coveredParkingSpaces |-> formData.coveredParkingSpaces,
         drivewaySurfaceWidth |-> OrElse(formData.drivewaySurfaceWidth, 8),
         drivewayClearanceWidth |-> OrElse(formData.drivewayClearanceWidth, 10),
         hasGarage |-> formData.hasGarage,
         garageFrontSetback |-> Undef,
         garageStreetSideSetback |-> Undef,
         backingDistance |-> OrElse(formData.backingDistance, 18),
         drivewayMaterial |-> "concrete",
         mainHouseArea |-> Undef,
         secondUnitArea |-> Undef,
         accessoryStructures |-> <<>>,
         hasPool |-> formData.hasPool,
         poolSetback |-> Undef,
         poolSafetyBarriers |-> FALSE,
         totalCoverageWithFeatures |-> Undef,
         professionalStamps |-> {"Architect", "Structural Engineer"},
         submittedDocuments |-> {"site_plan", "floor_plans", "elevations",
                                 "structural_calcs"}]]

\* the site and design records of a validation form.  The design has no
\* field the form does not name (Undef, "", FALSE or <<>> here); a null
\* street side setback compares as 0.
formatDataForValidation(formData) ==
    [siteData |->
        [address |-> formData.address,
         zone |-> formData.zone,
         lotSize |-> formData.lotSize,
         lotType |-> IF formData.lotType = "" THEN "typical" ELSE formData.lotType,
         isCornerLot |-> formData.isCornerLot,
         creekAreas |-> OrElse(formData.creekAreas, 0),
         easements |-> OrElse(formData.easements, 0),
         historicCategory |-> formData.historicCategory,
         hasSecondUnit |-> FALSE],
     designData |->
        [submittedZone |-> formData.zone,
         historicCompliance |-> "",
         buildingFootprint |-> Undef,
         encroachesCreek |-> FALSE,
         encroachesEasement |-> FALSE,
         buildingHeight |-> formData.buildingHeight,
         floors |-> OrElse(formData.floors, 1),
         secondFloorCeiling |-> Undef,
         thirdFloorCeiling |-> Undef,
         frontSetback |-> formData.frontSetback,
         interiorSideSetback |-> formData.interiorSideSetback,
         streetSideSetback |-> OrElse(formData.streetSideSetback, 0),
         rearSetback |-> formData.rearSetback,
         totalFloorArea |-> formData.totalFloorArea,
         daylightPlaneCompliant |-> Some(formData.daylightPlaneCompliant),
         porchArea |-> Undef,
         entryProjection |-> Undef,
         bayWindowProjection |-> Undef,
         totalCoverage |-> formData.totalCoverage,
         hasSecondUnit |-> formData.hasSecondUnit,
         parkingSpaces |-> formData.parkingSpaces,
         coveredParkingSpaces |-> formData.coveredParkingSpaces,
         drivewaySurfaceWidth |-> OrElse(formData.drivewaySurfaceWidth, 8),
         drivewayClearanceWidth |-> OrElse(formData.drivewayClearanceWidth, 10),
         hasGarage |-> formData.hasGarage,
         garageFrontSetback |-> Undef,
         garageStreetSideSetback |-> Undef,
         backingDistance |-> OrElse(formData.backingDistance, 18),
         drivewayMaterial |-> "concrete",
         mainHouseArea |-> Undef,
         secondUnitArea |-> Undef,
         accessoryStructures |-> <<>>,
         hasPool |-> formData.hasPool,
         poolSetback |-> Undef,
         poolSafetyBarriers |-> FALSE,
         totalCoverageWithFeatures |-> Undef,
         professionalStamps |-> {"Architect"},
         submittedDocuments |-> {"site_plan", "floor_plans"}]]

\* the forms the application is given: a compliant one, one whose lot is below
\* the minimum of its zone, and one without an address
PlanningForms ==
    {FilledForm,
     [FilledForm EXCEPT !.lotSize = 5000],
     [FilledForm EXCEPT !.address = ""]}

ValidationForms ==
    {FilledForm,
     [FilledForm EXCEPT !.lotSize = 5000],
     [FilledForm EXCEPT !.buildingHeight = 0]}

\* new PlanningValidationApp(): planning mode, no workflow stored, no call made
NewApp ==
    [currentMode |-> "planning",
     currentWorkflow |-> Null,
     calls |-> <<>>,
     timers |-> <<>>,
     report |-> Null]

\* a call of executePlanningWorkflow or executeValidationWorkflow, waiting on
\* the delay before its first phase
NewCall(type, siteData, designData) ==
    [type |-> type, siteData |-> siteData, designData |-> designData,
     awaiting |-> 1, phases |-> EmptyObject, outcome |-> "running"]

Submitted(a, call) ==
    [a EXCEPT !.calls = Append(@, call),
              !.timers = Append(@, Len(a.calls) + 1)]

\* handlePlanningSubmission: a form that does not validate starts nothing
handlePlanningSubmission(a, formData) ==
    IF ~validatePlanningInput(formData) THEN a
    ELSE Submitted(a, NewCall("planning", formatSiteDataForPlanning(formData),
                              EmptyObject))

handleValidationSubmission(a, formData) ==
    IF ~validateValidationInput(formData) THEN a
    ELSE LET data == formatDataForValidation(formData)
         IN  Submitted(a, NewCall("validation", data.siteData, data.designData))

\* switchMode: nothing on the mode already shown; otherwise resetWorkflow
switchMode(a, mode) ==
    IF a.currentMode = mode THEN a
    ELSE [a EXCEPT !.currentMode = mode, !.currentWorkflow = Null]

\* the phase call a workflow call makes when its delay is over
AppPhaseResults(call, k) ==
    LET site == call.siteData
        design == call.designData
    IN  IF call.type = "planning"
        THEN CASE k = 1 -> executePhase1(Engines["PE"], site)
               [] k = 2 -> executePhase2(Engines["PE"], site, call.phases.phase1)
               [] k = 3 -> executePhase3(Engines["PE"], site, ResultsForPhase3(call.phases))
               [] k = 4 -> executePhase4(Engines["PE"], site, ResultsForPhase4(call.phases))
               [] k = 5 -> executePhase5(Engines["PE"], site, ResultsForPhase5(call.phases))
        ELSE CASE k = 1 -> executePhase1Validation(Engines["VE"], site, design)
               [] k = 2 -> executePhase2Validation(Engines["VE"], site, design,
                                                   call.phases.phase1)
               [] k = 3 -> executePhase3Validation(Engines["VE"], site, design,
                                                   ResultsForPhase3(call.phases))
               [] k = 4 -> executePhase4Validation(Engines["VE"], site, design,
                                                   ResultsForPhase4(call.phases))
               [] k = 5 -> executePhase5Validation(Engines["VE"], site, design,
                                                   ResultsForPhase5(call.phases))

\* the phase calls that throw: a zone that is not in the table
AppPhaseThrows(call, k) ==
    LET this == Engines[IF call.type = "planning" THEN "PE" ELSE "VE"]
    IN  k = 1 /\ ~KnownZone(this, call.siteData.zone)

\* the object stored for report generation; call notes whose results these are
StoredWorkflow(c, call) ==
    [type |-> call.type,
     results |-> <<call.phases.phase1, call.phases.phase2, call.phases.phase3,
                   call.phases.phase4, call.phases.phase5>>,
     finalReport |-> call.phases.phase5.finalReport,
     call |-> c]

\* the workflow call c after its delay: the phase it waited for, then the
\* early return of phase 1, the next delay, or the results stored; an error
\* is caught and shown
Resumed(a, c) ==
    LET call == a.calls[c]
        k == call.awaiting
        key == PhaseKeys[k]
        results == AppPhaseResults(call, k)
        after == [call EXCEPT !.phases = @ @@ (key :> results)]
        rest == Tail(a.timers)
    IN  IF AppPhaseThrows(call, k)
        THEN [a EXCEPT !.timers = rest,
                       !.calls[c] = [call EXCEPT !.awaiting = 0, !.outcome = "error"]]
        ELSE IF k = 1 /\ results.status = StopStatus(call.type)
        THEN [a EXCEPT !.timers = rest,
                       !.calls[c] = [after EXCEPT !.awaiting = 0, !.outcome = "stopped"]]
        ELSE IF k < 5
        THEN [a EXCEPT !.timers = Append(rest, c),
                       !.calls[c] = [after EXCEPT !.awaiting = k + 1]]
        ELSE [a EXCEPT !.timers = rest,
                       !.calls[c] = [after EXCEPT !.awaiting = 0, !.outcome = "stored"],
                       !.currentWorkflow = Some(StoredWorkflow(c, after))]

\* phase.validationResults of a stored phase result
ValidationResultsOf(phase) ==
    IF "validationResults" \in DOMAIN phase THEN phase.validationResults ELSE <<>>

RECURSIVE AllValidationResults(_)
AllValidationResults(results) ==
    IF results = <<>> THEN <<>>
    ELSE ValidationResultsOf(Head(results)) \o AllValidationResults(Tail(results))

Failures(results, critical) ==
    Cardinality({k \in 1..Len(AllValidationResults(results)) :
                    /\ AllValidationResults(results)[k].status = "FAIL"
                    /\ critical => AllValidationResults(results)[k].critical})

calculateOverallStatus(results) ==
    IF Failures(results, TRUE) > 0 THEN "REJECTED"
    ELSE IF Failures(results, FALSE) > 0 THEN "CONDITIONAL"
    ELSE "APPROVED"

\* the figures createValidationReportData writes into the report text
createValidationReportData(a) ==
    LET workflow == a.currentWorkflow[1]
    IN  [overallStatus |-> calculateOverallStatus(workflow.results),
         totalViolations |-> Failures(workflow.results, FALSE),
         criticalViolations |-> Failures(workflow.results, TRUE),
         call |-> workflow.call]

\* generateValidationReport of the application: an alert when there is no
\* workflow stored
appGenerateValidationReport(a) ==
    IF a.currentWorkflow = Null THEN a
    ELSE [a EXCEPT !.report = Some(createValidationReportData(a))]

Act(after) ==
    /\ app' = after
    /\ UNCHANGED <<engine, wf, args, ret>>

HandlePlanningSubmission(forms, limit) ==
    /\ app.currentMode = "planning"
    /\ Len(app.calls) < limit
    /\ \E formData \in forms : Act(handlePlanningSubmission(app, formData))

HandleValidationSubmission(forms, limit) ==
    /\ app.currentMode = "validation"
    /\ Len(app.calls) < limit
    /\ \E formData \in forms : Act(handleValidationSubmission(app, formData))

SwitchMode ==
    \E mode \in {"planning", "validation"} : Act(switchMode(app, mode))

ResumePlanningWorkflow ==
    /\ app.timers # <<>>
    /\ app.calls[Head(app.timers)].type = "planning"
    /\ Act(Resumed(app, Head(app.timers)))

ResumeValidationWorkflow ==
    /\ app.timers # <<>>
    /\ app.calls[Head(app.timers)].type = "validation"
    /\ Act(Resumed(app, Head(app.timers)))

GenerateValidationReport ==
    Act(appGenerateValidationReport(app))

InitApp ==
    /\ engine = Engines
    /\ wf = EmptyObject
    /\ args = NoArgs
    /\ ret = EmptyObject
    /\ app = NewApp

NextApp ==
    \/ HandlePlanningSubmission(PlanningForms, MaxSubmissions)
    \/ HandleValidationSubmission(ValidationForms, MaxSubmissions)
    \/ SwitchMode
    \/ ResumePlanningWorkflow
    \/ ResumeValidationWorkflow
    \/ GenerateValidationReport

SpecApp == InitApp /\ [][NextApp]_vars

(***************************************************************************)
(* C28: the generated validation report against the engine's final report  *)
(***************************************************************************)
\* a report generated from the stored results of a validation call
ValidationReported ==
    /\ app.report # Null
    /\ app.calls[app.report[1].call].type = "validation"

EngineReport == app.calls[app.report[1].call].phases.phase5.finalReport[1]

\* C28: the overall status and the total and critical violation counts of a
\* generated validation report equal overallStatus, violationSummary.total
\* and violationSummary.critical of the engine's final report of that run.
C28_ReportAgrees ==
    ValidationReported =>
        /\ app.report[1].overallStatus = EngineReport.overallStatus
        /\ app.report[1].totalViolations = EngineReport.violationSummary.total
        /\ app.report[1].criticalViolations = EngineReport.violationSummary.critical

\* a report that says APPROVED with no violation for a run whose final report
\* is CONDITIONAL with violations
C28_Approved ==
    /\ ValidationReported
    /\ app.report[1].overallStatus = "APPROVED"
    /\ app.report[1].totalViolations = 0
    /\ EngineReport.overallStatus = "CONDITIONAL"
    /\ EngineReport.violationSummary.total > 0

\* what the application computes instead: no stored phase result has a
\* validationResults list, so every report is APPROVED with no violation
C28_AlwaysApproved ==
    app.report # Null =>
        /\ app.report[1].overallStatus = "APPROVED"
        /\ app.report[1].totalViolations = 0
        /\ app.report[1].criticalViolations = 0

(***************************************************************************)
(* C29: what currentWorkflow holds                                         *)
(***************************************************************************)
\* the last workflow call made in a mode, 0 when there is none
MostRecent(mode) ==
    LET made == {c \in 1..Len(app.calls) : app.calls[c].type = mode}
    IN  IF made = {} THEN 0 ELSE CHOOSE c \in made : \A d \in made : d <= c

\* C29: whatever the order of submissions, mode switches and delayed phase
\* steps, currentWorkflow is null or holds the five phase results of the
\* workflow submitted last in the current mode.
C29_CurrentWorkflow ==
    \/ app.currentWorkflow = Null
    \/ LET workflow == app.currentWorkflow[1]
       IN  /\ workflow.type = app.currentMode
           /\ workflow.call = MostRecent(app.currentMode)
           /\ Len(workflow.results) = 5

\* a planning workflow that was in its delayed phases when the mode was
\* switched has stored its results: the validation mode holds planning results
C29_StoredAfterSwitch ==
    /\ app.currentMode = "validation"
    /\ app.currentWorkflow # Null
    /\ app.currentWorkflow[1].type = "planning"

\* a newer submission stopped at phase 1 and the results of the older run are
\* still the ones a report is generated from
C29_OlderLeft ==
    /\ Len(app.calls) = 2
    /\ app.calls[2].outcome = "stopped"
    /\ app.calls[2].type = app.currentMode
    /\ app.currentWorkflow # Null
    /\ app.currentWorkflow[1].call = 1
    /\ app.currentWorkflow[1].type = app.currentMode

\* ---- one validation form, typed freely, submitted to the application ----
TypedForms ==
    {[FilledForm EXCEPT !.address = a, !.zone = z, !.lotSize = l,
                        !.buildingHeight = h, !.totalFloorArea = f,
                        !.isCornerLot = c, !.hasGarage = g, !.hasPool = p,
                        !.hasSecondUnit = u] :
        a \in {"", "123 Main St"}, z \in {"", "R-1", "R-1(10000)"},
        l \in {999, 5000, 8000, 10000}, h \in {0, 25, 31}, f \in {0, 2500},
        c \in BOOLEAN, g \in BOOLEAN, p \in BOOLEAN, u \in BOOLEAN}

NextForm ==
    \/ HandleValidationSubmission(TypedForms, 1)
    \/ SwitchMode
    \/ ResumeValidationWorkflow
    \/ GenerateValidationReport

SpecForm == InitApp /\ [][NextForm]_vars

(***************************************************************************)
(* C30: no validation started from the form is approved                    *)
(***************************************************************************)
ProcessStoppers(results) ==
    {results.violations[k].category :
        k \in {j \in 1..Len(results.violations) :
                  results.violations[j].type = "process_stopper"}}

\* C30: the design record of every accepted validation form carries the
\* stamps {Architect}, the documents {site_plan, floor_plans} and no total
\* coverage with features; its run is never approved: it stops at phase 1 as
\* a critical failure, or phase 4 fails the total coverage check, phase 5
\* records the two process stoppers and the final status is conditional or
\* rejected.
C30_NeverApproved ==
    \A c \in 1..Len(app.calls) :
        LET call == app.calls[c]
            design == call.designData
            phases == call.phases
        IN  call.type = "validation" =>
              /\ design.professionalStamps = {"Architect"}
              /\ design.submittedDocuments = {"site_plan", "floor_plans"}
              /\ design.totalCoverageWithFeatures = Undef
              /\ call.siteData.lotSize >= 1000 /\ design.buildingHeight > 0
              /\ call.outcome # "error"
              /\ \A key \in DOMAIN phases : phases[key].status # "approved"
              /\ call.outcome = "stopped" => phases.phase1.status = "critical_failure"
              /\ "phase4" \in DOMAIN phases =>
                    CheckFailed(phases.phase4, "Total Coverage With Features")
              /\ "phase5" \in DOMAIN phases =>
                    /\ ProcessStoppers(phases.phase5)
                         = {"Professional Requirements", "Documentation"}
                    /\ phases.phase5.status \in {"conditional", "rejected"}
                    /\ phases.phase5.finalReport[1].overallStatus
                         \in {"CONDITIONAL", "REJECTED"}
              /\ call.outcome = "stored" => "phase5" \in DOMAIN phases

\* a form that breaks no rule of phases 1 to 3: its run is stored as
\* conditional, with the coverage failure of phase 4 and the two of phase 5
C30_Witness ==
    /\ Len(app.calls) = 1
    /\ app.calls[1].outcome = "stored"
    /\ \A key \in {"phase1", "phase2", "phase3"} :
          Len(app.calls[1].phases[key].violations) = 0
    /\ Len(app.calls[1].phases.phase4.violations) = 1
    /\ Len(app.calls[1].phases.phase5.violations) = 2
    /\ app.calls[1].phases.phase5.status = "conditional"

\* a form whose run is rejected after five phases
C30_Rejected ==
    /\ Len(app.calls) = 1
    /\ app.calls[1].outcome = "stored"
    /\ app.calls[1].phases.phase5.status = "rejected"

====
